---- MODULE Spec2Model ----
(***************************************************************************)
(* Model of etherparse's IP header dispatcher (IpHeader::from_slice,       *)
(* ipv4_from_slice, ipv6_from_slice, read, write) over concrete octet      *)
(* buffers.  Buffers are sequences of octets; offsets in the operators     *)
(* are 0-based as in the Rust code.                                        *)
(***************************************************************************)
EXTENDS Integers, Sequences, FiniteSets, TLC

VARIABLES
    buf,    \* the octet buffer (slice / stream content / sink content)
    hdr,    \* the IpHeader value handed to write (an Option)
    op,     \* the operation applied last
    res,    \* the value the operation returned
    mem,    \* the raw windows and unchecked reads the operation made
    call    \* receiver and argument of the last call that mutated hdr

vars == <<buf, hdr, op, res, mem, call>>

(***************************************************************************)
(* Program constants                                                       *)
(***************************************************************************)
Ipv4Header_MIN_LEN == 20
Ipv6Header_LEN == 40
IpAuthHeader_MIN_LEN == 12
Ipv6FragmentHeader_LEN == 8

IPV6_HOP_BY_HOP == 0
TCP == 6
UDP == 17
IPV6_ROUTE == 43
IPV6_FRAG == 44
AUTH == 51
IPV6_DEST_OPTIONS == 60

\* EtherType::IPV4.0
EtherType_IPV4 == 2048
\* u16::MAX
U16_MAX == 65535

(***************************************************************************)
(* Option values and results                                               *)
(***************************************************************************)
None == [some |-> FALSE]
Some(x) == [some |-> TRUE, v |-> x]

LenError(required_len, len, len_source, layer, layer_start_offset) ==
    [required_len |-> required_len, len |-> len, len_source |-> len_source,
     layer |-> layer, layer_start_offset |-> layer_start_offset]

ErrLen(e) == [kind |-> "Len", err |-> e]
ErrContent(e) == [kind |-> "Content", err |-> e]
ErrIo == [kind |-> "Io"]

\* what an operation hands back to the action: its outcome, the raw windows
\* <<offset, length>> it built over the input and the indices it read
\* without a bounds check
Ret(out, windows, reads) == [out |-> out, windows |-> windows, reads |-> reads]

(***************************************************************************)
(* Octet helpers                                                           *)
(***************************************************************************)
Byte == 0..255

\* slice[i] without a bounds check; an index past the end is outside the
\* memory model (the safety claims state that it never happens)
At(b, i) == IF i >= 0 /\ i < Len(b) THEN b[i + 1] ELSE 0

\* core::slice::from_raw_parts(ptr.add(off), len)
RawParts(b, off, len) == [i \in 1..len |-> At(b, off + i - 1)]

U16BE(b, i) == At(b, i) * 256 + At(b, i + 1)
BE16(x) == <<(x \div 256) % 256, x % 256>>
\* a u32 is held as its two 16-bit halves <<high, low>> (the model's
\* integers are 32-bit signed)
U32BE(b, i) == <<U16BE(b, i), U16BE(b, i + 2)>>
BE32(x) == BE16(x[1]) \o BE16(x[2])

Indices(off, len) == {off + i : i \in 0..(len - 1)}

(***************************************************************************)
(* IPv4 fixed header codec                                                 *)
(***************************************************************************)
Ipv4Header_header_len(h) == Ipv4Header_MIN_LEN + Len(h.options)

\* Ipv4HeaderSlice::to_header over a window of IHL*4 octets
Ipv4HeaderSlice_to_header(w) ==
    [dscp |-> At(w, 1) \div 4,
     ecn |-> At(w, 1) % 4,
     total_len |-> U16BE(w, 2),
     identification |-> U16BE(w, 4),
     dont_fragment |-> ((At(w, 6) \div 64) % 2 = 1),
     more_fragments |-> ((At(w, 6) \div 32) % 2 = 1),
     fragment_offset |-> (At(w, 6) % 32) * 256 + At(w, 7),
     time_to_live |-> At(w, 8),
     protocol |-> At(w, 9),
     header_checksum |-> U16BE(w, 10),
     source |-> RawParts(w, 12, 4),
     destination |-> RawParts(w, 16, 4),
     options |-> RawParts(w, Ipv4Header_MIN_LEN, Len(w) - Ipv4Header_MIN_LEN)]

Ipv4Header_is_fragmenting_payload(h) ==
    h.more_fragments \/ h.fragment_offset # 0

\* the octets of the header with the given checksum field
Ipv4Header_bytes(h, checksum) ==
    <<4 * 16 + (Ipv4Header_header_len(h) \div 4),
      h.dscp * 4 + h.ecn>>
    \o BE16(h.total_len)
    \o BE16(h.identification)
    \o <<(IF h.dont_fragment THEN 64 ELSE 0)
           + (IF h.more_fragments THEN 32 ELSE 0)
           + ((h.fragment_offset \div 256) % 32),
         h.fragment_offset % 256,
         h.time_to_live,
         h.protocol>>
    \o BE16(checksum)
    \o h.source \o h.destination \o h.options

RECURSIVE SumWords(_, _)
SumWords(b, i) ==
    IF i >= Len(b) THEN 0 ELSE U16BE(b, i) + SumWords(b, i + 2)

RECURSIVE Fold16(_)
Fold16(x) == IF x < 65536 THEN x ELSE Fold16((x % 65536) + (x \div 65536))

\* 16-bit one's-complement sum of the header, checksum slot zeroed
Ipv4Header_calc_header_checksum(h) ==
    65535 - Fold16(SumWords(Ipv4Header_bytes(h, 0), 0))

\* Ipv4Header::write: installs the computed checksum
Ipv4Header_write(h) == Ipv4Header_bytes(h, Ipv4Header_calc_header_checksum(h))

(***************************************************************************)
(* IPv6 fixed header codec                                                 *)
(***************************************************************************)
Ipv6HeaderSlice_to_header(w) ==
    [traffic_class |-> (At(w, 0) % 16) * 16 + (At(w, 1) \div 16),
     flow_label |-> (At(w, 1) % 16) * 65536 + U16BE(w, 2),
     payload_length |-> U16BE(w, 4),
     next_header |-> At(w, 6),
     hop_limit |-> At(w, 7),
     source |-> RawParts(w, 8, 16),
     destination |-> RawParts(w, 24, 16)]

Ipv6Header_write(h) ==
    <<6 * 16 + (h.traffic_class \div 16),
      (h.traffic_class % 16) * 16 + ((h.flow_label \div 65536) % 16)>>
    \o BE16(h.flow_label % 65536)
    \o BE16(h.payload_length)
    \o <<h.next_header, h.hop_limit>>
    \o h.source \o h.destination

(***************************************************************************)
(* Authentication header codec (RFC 4302)                                  *)
(***************************************************************************)
IpAuthHeader_header_len(a) == IpAuthHeader_MIN_LEN + Len(a.raw_icv)

\* decoded from a window that holds the whole header
IpAuthHeaderSlice_to_header(w) ==
    [next_header |-> At(w, 0),
     spi |-> U32BE(w, 4),
     sequence_number |-> U32BE(w, 8),
     raw_icv |-> RawParts(w, IpAuthHeader_MIN_LEN, Len(w) - IpAuthHeader_MIN_LEN)]

IpAuthHeader_write(a) ==
    <<a.next_header, (IpAuthHeader_header_len(a) \div 4) - 2, 0, 0>>
    \o BE32(a.spi) \o BE32(a.sequence_number) \o a.raw_icv

\* IpAuthHeaderSlice::from_slice on the window w: the header's length in
\* octets, or the error
IpAuthHeaderSlice_from_slice(w) ==
    IF Len(w) < IpAuthHeader_MIN_LEN
    THEN ErrLen(LenError(IpAuthHeader_MIN_LEN, Len(w), "Slice", "IpAuthHeader", 0))
    ELSE IF At(w, 1) = 0
    THEN ErrContent([name |-> "ZeroPayloadLen"])
    ELSE LET len == (At(w, 1) + 2) * 4 IN
         IF Len(w) < len
         THEN ErrLen(LenError(len, Len(w), "Slice", "IpAuthHeader", 0))
         ELSE [kind |-> "Ok", len |-> len]

(***************************************************************************)
(* IPv4 extensions (at most one authentication header)                     *)
(***************************************************************************)
WalkOk(exts, next_header, consumed) ==
    [kind |-> "Ok", exts |-> exts, next_header |-> next_header,
     consumed |-> consumed]

\* LenError::add_offset
AddOffset(r, off) ==
    IF r.kind = "Len"
    THEN ErrLen([r.err EXCEPT !.layer_start_offset = @ + off])
    ELSE r

\* Ipv4Extensions::from_slice(start_ip_number, slice): the extensions, the
\* terminal ip number and how many octets of the window were consumed
Ipv4Extensions_from_slice(start_ip_number, w) ==
    IF start_ip_number = AUTH
    THEN LET a == IpAuthHeaderSlice_from_slice(w) IN
         IF a.kind = "Ok"
         THEN LET h == IpAuthHeaderSlice_to_header(SubSeq(w, 1, a.len)) IN
              WalkOk([auth |-> Some(h)], h.next_header, a.len)
         ELSE a
    ELSE WalkOk([auth |-> None], start_ip_number, 0)

Ipv4Extensions_header_len(e) ==
    IF e.auth.some THEN IpAuthHeader_header_len(e.auth.v) ELSE 0

(***************************************************************************)
(* IPv6 extensions                                                         *)
(***************************************************************************)
Ipv6ExtNumbers ==
    {IPV6_HOP_BY_HOP, IPV6_ROUTE, IPV6_FRAG, IPV6_DEST_OPTIONS, AUTH}

Ipv6Extensions_default ==
    [hop_by_hop_options |-> None, destination_options |-> None,
     routing |-> None, fragment |-> None, auth |-> None]

\* generic extension header: next_header, length field, options
Ipv6RawExtHeaderSlice_to_header(w) ==
    [next_header |-> At(w, 0), payload |-> RawParts(w, 2, Len(w) - 2)]

Ipv6RawExtHeader_header_len(x) == 2 + Len(x.payload)

Ipv6RawExtHeader_write(x) ==
    <<x.next_header, (Ipv6RawExtHeader_header_len(x) \div 8) - 1>> \o x.payload

Ipv6FragmentHeaderSlice_to_header(w) ==
    [next_header |-> At(w, 0),
     fragment_offset |-> At(w, 2) * 32 + (At(w, 3) \div 8),
     more_fragments |-> (At(w, 3) % 2 = 1),
     identification |-> U32BE(w, 4)]

Ipv6FragmentHeader_write(f) ==
    <<f.next_header, 0,
      (f.fragment_offset \div 32) % 256,
      (f.fragment_offset % 32) * 8 + (IF f.more_fragments THEN 1 ELSE 0)>>
    \o BE32(f.identification)

Ipv6FragmentHeader_is_fragmenting_payload(f) ==
    f.more_fragments \/ f.fragment_offset # 0

Ipv6Extensions_is_fragmenting_payload(e) ==
    e.fragment.some /\ Ipv6FragmentHeader_is_fragmenting_payload(e.fragment.v)

\* one extension header at the start of the window rest: its length, or
\* the error
Ipv6Ext_slice(ip_number, rest) ==
    IF ip_number = AUTH
    THEN IpAuthHeaderSlice_from_slice(rest)
    ELSE LET layer == IF ip_number = IPV6_FRAG
                      THEN "Ipv6FragHeader" ELSE "Ipv6ExtHeader" IN
         IF Len(rest) < 2
         THEN ErrLen(LenError(2, Len(rest), "Slice", layer, 0))
         ELSE LET len == IF ip_number = IPV6_FRAG
                         THEN Ipv6FragmentHeader_LEN
                         ELSE (At(rest, 1) + 1) * 8 IN
              IF Len(rest) < len
              THEN ErrLen(LenError(len, Len(rest), "Slice", layer, 0))
              ELSE [kind |-> "Ok", len |-> len]

\* the first instance of a kind is recorded in its slot, later ones are
\* consumed without being recorded
Ipv6Ext_record(exts, ip_number, x) ==
    CASE ip_number = IPV6_HOP_BY_HOP ->
           IF exts.hop_by_hop_options.some THEN exts
           ELSE [exts EXCEPT !.hop_by_hop_options =
                     Some(Ipv6RawExtHeaderSlice_to_header(x))]
      [] ip_number = IPV6_DEST_OPTIONS ->
           IF exts.destination_options.some THEN exts
           ELSE [exts EXCEPT !.destination_options =
                     Some(Ipv6RawExtHeaderSlice_to_header(x))]
      [] ip_number = IPV6_ROUTE ->
           IF exts.routing.some THEN exts
           ELSE [exts EXCEPT !.routing =
                     Some(Ipv6RawExtHeaderSlice_to_header(x))]
      [] ip_number = IPV6_FRAG ->
           IF exts.fragment.some THEN exts
           ELSE [exts EXCEPT !.fragment =
                     Some(Ipv6FragmentHeaderSlice_to_header(x))]
      [] OTHER ->
           IF exts.auth.some THEN exts
           ELSE [exts EXCEPT !.auth = Some(IpAuthHeaderSlice_to_header(x))]

\* a content error of the authentication header as the IPv6 walker
\* reports it: err::ipv6_exts::HeaderError::IpAuth
Ipv6Ext_wrap(x) ==
    IF x.kind = "Content"
    THEN ErrContent([name |-> "IpAuth", inner |-> x.err])
    ELSE x

RECURSIVE Ipv6Ext_walk(_, _, _, _)
Ipv6Ext_walk(w, off, next_header, exts) ==
    IF next_header \notin Ipv6ExtNumbers
    THEN WalkOk(exts, next_header, off)
    ELSE LET rest == SubSeq(w, off + 1, Len(w))
             s == Ipv6Ext_slice(next_header, rest)
         IN  IF s.kind = "Ok"
             THEN Ipv6Ext_walk(w, off + s.len, At(rest, 0),
                      Ipv6Ext_record(exts, next_header, SubSeq(rest, 1, s.len)))
             ELSE Ipv6Ext_wrap(AddOffset(s, off))

\* Ipv6Extensions::from_slice(start_ip_number, slice)
Ipv6Extensions_from_slice(start_ip_number, w) ==
    Ipv6Ext_walk(w, 0, start_ip_number, Ipv6Extensions_default)

Ipv6Extensions_header_len(e) ==
    (IF e.hop_by_hop_options.some
     THEN Ipv6RawExtHeader_header_len(e.hop_by_hop_options.v) ELSE 0)
    + (IF e.destination_options.some
       THEN Ipv6RawExtHeader_header_len(e.destination_options.v) ELSE 0)
    + (IF e.routing.some
       THEN Ipv6RawExtHeader_header_len(e.routing.v) ELSE 0)
    + (IF e.fragment.some THEN Ipv6FragmentHeader_LEN ELSE 0)
    + (IF e.auth.some THEN IpAuthHeader_header_len(e.auth.v) ELSE 0)

(***************************************************************************)
(* IpHeader and IpPayload values                                           *)
(***************************************************************************)
Version4(header, exts) == [version |-> 4, header |-> header, exts |-> exts]
Version6(header, exts) == [version |-> 6, header |-> header, exts |-> exts]

\* the payload slice is the window off .. off + len of the input
IpPayload(ip_number, fragmented, len_source, off, len) ==
    [ip_number |-> ip_number, fragmented |-> fragmented,
     len_source |-> len_source, off |-> off, len |-> len]

Ok(header, payload) == [kind |-> "Ok", header |-> header, payload |-> payload]

(***************************************************************************)
(* IpHeader::from_slice                                                    *)
(***************************************************************************)
\* fault: the total_len checks without the comparison against the slice
from_slice_v4_rest_unchecked(slice_len, header_len, total_len) ==
    IF total_len < header_len
    THEN ErrLen(LenError(header_len, total_len, "Ipv4HeaderTotalLen",
                         "Ipv4Packet", 0))
    ELSE [kind |-> "Ok", len |-> total_len - header_len]

\* fault: a total_len below the header length reported as a slice shortage
from_slice_v4_rest_slice_source(slice_len, header_len, total_len) ==
    IF total_len < header_len
    THEN ErrLen(LenError(header_len, total_len, "Slice", "Ipv4Packet", 0))
    ELSE IF slice_len < total_len
    THEN ErrLen(LenError(total_len, slice_len, "Slice", "Ipv4Packet", 0))
    ELSE [kind |-> "Ok", len |-> total_len - header_len]

\* the total_len checks of the IPv4 path: the length of the window after
\* the fixed header, or the error
from_slice_v4_rest(slice_len, header_len, total_len) ==
    IF total_len < header_len
    THEN ErrLen(LenError(header_len, total_len, "Ipv4HeaderTotalLen",
                         "Ipv4Packet", 0))
    ELSE IF slice_len < total_len
    THEN ErrLen(LenError(total_len, slice_len, "Slice", "Ipv4Packet", 0))
    ELSE [kind |-> "Ok", len |-> total_len - header_len]

\* fault: the offset of the walker's error left relative to its window
from_slice_v4_map_err_no_offset(x, header_len) ==
    IF x.kind = "Len"
    THEN ErrLen([x.err EXCEPT !.len_source = "Ipv4HeaderTotalLen"])
    ELSE ErrContent([name |-> "Ipv4Ext", inner |-> x.err])

\* map_err of the IPv4 extension walk
from_slice_v4_map_err(x, header_len) ==
    IF x.kind = "Len"
    THEN ErrLen([x.err EXCEPT !.layer_start_offset = @ + header_len,
                              !.len_source = "Ipv4HeaderTotalLen"])
    ELSE ErrContent([name |-> "Ipv4Ext", inner |-> x.err])

\* fault: the IHL examined before the 20 octets are known to be there
from_slice_v4_header_len_ihl_first(slice) ==
    LET ihl == At(slice, 0) % 16 IN
    IF ihl < 5
    THEN [out |-> ErrContent([name |-> "Ipv4HeaderLengthSmallerThanHeader",
                              ihl |-> ihl]),
          reads |-> {0}]
    ELSE IF Len(slice) < ihl * 4
    THEN [out |-> ErrLen(LenError(ihl * 4, Len(slice), "Slice",
                                  "Ipv4Header", 0)),
          reads |-> {0}]
    ELSE [out |-> [kind |-> "Ok", len |-> ihl * 4], reads |-> {0}]

\* fault: an IHL of 4 let through
from_slice_v4_header_len_ihl_4(slice) ==
    IF Len(slice) < Ipv4Header_MIN_LEN
    THEN [out |-> ErrLen(LenError(Ipv4Header_MIN_LEN, Len(slice), "Slice",
                                  "Ipv4Header", 0)),
          reads |-> {}]
    ELSE
    LET ihl == At(slice, 0) % 16 IN
    IF ihl < 4
    THEN [out |-> ErrContent([name |-> "Ipv4HeaderLengthSmallerThanHeader",
                              ihl |-> ihl]),
          reads |-> {0}]
    ELSE
    LET header_len == ihl * 4 IN
    IF Len(slice) < header_len
    THEN [out |-> ErrLen(LenError(header_len, Len(slice), "Slice",
                                  "Ipv4Header", 0)),
          reads |-> {0}]
    ELSE [out |-> [kind |-> "Ok", len |-> header_len], reads |-> {0}]

\* the checks before the fixed header is decoded: the header length, or
\* the error; reads is what get_unchecked read
from_slice_v4_header_len(slice) ==
    IF Len(slice) < Ipv4Header_MIN_LEN
    THEN [out |-> ErrLen(LenError(Ipv4Header_MIN_LEN, Len(slice), "Slice",
                                  "Ipv4Header", 0)),
          reads |-> {}]
    ELSE
    LET ihl == At(slice, 0) % 16 IN
    IF ihl < 5
    THEN [out |-> ErrContent([name |-> "Ipv4HeaderLengthSmallerThanHeader",
                              ihl |-> ihl]),
          reads |-> {0}]
    ELSE
    LET header_len == ihl * 4 IN
    IF Len(slice) < header_len
    THEN [out |-> ErrLen(LenError(header_len, Len(slice), "Slice",
                                  "Ipv4Header", 0)),
          reads |-> {0}]
    ELSE [out |-> [kind |-> "Ok", len |-> header_len], reads |-> {0}]

from_slice_v4(slice) ==
    LET hl == from_slice_v4_header_len(slice) IN
    IF hl.out.kind # "Ok" THEN Ret(hl.out, {}, hl.reads)
    ELSE
    LET header_len == hl.out.len
        header == Ipv4HeaderSlice_to_header(RawParts(slice, 0, header_len))
        w1 == {<<0, header_len>>}
        r == from_slice_v4_rest(Len(slice), header_len, header.total_len)
    IN
    IF r.kind # "Ok" THEN Ret(r, w1, {0})
    ELSE
    LET rest == RawParts(slice, header_len, r.len)
        w2 == w1 \cup {<<header_len, r.len>>}
        x == Ipv4Extensions_from_slice(header.protocol, rest)
    IN
    IF x.kind # "Ok" THEN Ret(from_slice_v4_map_err(x, header_len), w2, {0})
    ELSE Ret(Ok(Version4(header, x.exts),
                IpPayload(x.next_header,
                          Ipv4Header_is_fragmenting_payload(header),
                          "Ipv4HeaderTotalLen",
                          header_len + x.consumed, r.len - x.consumed)),
             w2 \cup {<<header_len + x.consumed, r.len - x.consumed>>}, {0})

\* fault: the window not narrowed to payload_length
from_slice_v6_window_unbounded(payload_length, slice_len) ==
    IF 0 = payload_length /\ slice_len > Ipv6Header_LEN
    THEN [kind |-> "Ok", len |-> slice_len - Ipv6Header_LEN,
          len_source |-> "Slice"]
    ELSE LET expected_len == Ipv6Header_LEN + payload_length IN
         IF slice_len < expected_len
         THEN ErrLen(LenError(expected_len, slice_len, "Slice",
                              "Ipv6Packet", 0))
         ELSE [kind |-> "Ok", len |-> slice_len - Ipv6Header_LEN,
               len_source |-> "Ipv6HeaderPayloadLen"]

\* fault: no fallback to the remainder when payload_length is zero
from_slice_v6_window_strict(payload_length, slice_len) ==
    LET expected_len == Ipv6Header_LEN + payload_length IN
    IF slice_len < expected_len
    THEN ErrLen(LenError(expected_len, slice_len, "Slice", "Ipv6Packet", 0))
    ELSE [kind |-> "Ok", len |-> payload_length,
          len_source |-> "Ipv6HeaderPayloadLen"]

\* the window after the IPv6 fixed header and its length source, or the
\* error
from_slice_v6_window(payload_length, slice_len) ==
    IF 0 = payload_length /\ slice_len > Ipv6Header_LEN
    THEN [kind |-> "Ok", len |-> slice_len - Ipv6Header_LEN,
          len_source |-> "Slice"]
    ELSE LET expected_len == Ipv6Header_LEN + payload_length IN
         IF slice_len < expected_len
         THEN ErrLen(LenError(expected_len, slice_len, "Slice",
                              "Ipv6Packet", 0))
         ELSE [kind |-> "Ok", len |-> payload_length,
               len_source |-> "Ipv6HeaderPayloadLen"]

\* map_err of the IPv6 extension walk
from_slice_v6_map_err(x, len_source) ==
    IF x.kind = "Len"
    THEN ErrLen([x.err EXCEPT !.layer_start_offset = @ + Ipv6Header_LEN,
                              !.len_source = len_source])
    ELSE ErrContent([name |-> "Ipv6Ext", inner |-> x.err])

from_slice_v6(slice) ==
    IF Len(slice) < Ipv6Header_LEN
    THEN Ret(ErrLen(LenError(Ipv6Header_LEN, Len(slice), "Slice",
                             "Ipv6Header", 0)), {}, {})
    ELSE
    LET header == Ipv6HeaderSlice_to_header(RawParts(slice, 0, Ipv6Header_LEN))
        w1 == {<<0, Ipv6Header_LEN>>}
        r == from_slice_v6_window(header.payload_length, Len(slice))
    IN
    IF r.kind # "Ok" THEN Ret(r, w1, {})
    ELSE
    LET header_payload == RawParts(slice, Ipv6Header_LEN, r.len)
        w2 == w1 \cup {<<Ipv6Header_LEN, r.len>>}
        x == Ipv6Extensions_from_slice(header.next_header, header_payload)
    IN
    IF x.kind # "Ok" THEN Ret(from_slice_v6_map_err(x, r.len_source), w2, {})
    ELSE Ret(Ok(Version6(header, x.exts),
                IpPayload(x.next_header,
                          Ipv6Extensions_is_fragmenting_payload(x.exts),
                          r.len_source,
                          Ipv6Header_LEN + x.consumed, r.len - x.consumed)),
             w2 \cup {<<Ipv6Header_LEN + x.consumed, r.len - x.consumed>>}, {})

\* fault: the low nibble of the first octet reported as the version
from_slice_low_nibble(slice) ==
    IF Len(slice) = 0
    THEN Ret(ErrLen(LenError(1, Len(slice), "Slice", "IpHeader", 0)), {}, {})
    ELSE LET version_number == At(slice, 0) \div 16 IN
         CASE version_number = 4 -> from_slice_v4(slice)
           [] version_number = 6 -> from_slice_v6(slice)
           [] OTHER -> Ret(ErrContent([name |-> "UnsupportedIpVersion",
                                       version_number |-> At(slice, 0) % 16]),
                           {}, {})

from_slice(slice) ==
    IF Len(slice) = 0
    THEN Ret(ErrLen(LenError(1, Len(slice), "Slice", "IpHeader", 0)), {}, {})
    ELSE LET version_number == At(slice, 0) \div 16 IN
         CASE version_number = 4 -> from_slice_v4(slice)
           [] version_number = 6 -> from_slice_v6(slice)
           [] OTHER -> Ret(ErrContent([name |-> "UnsupportedIpVersion",
                                       version_number |-> version_number]),
                           {}, {})

(***************************************************************************)
(* IpHeader::ipv4_from_slice and IpHeader::ipv6_from_slice                 *)
(***************************************************************************)
\* Ipv4Header::from_slice: the header and the offset of the rest
Ipv4Header_from_slice(slice) ==
    IF Len(slice) < Ipv4Header_MIN_LEN
    THEN ErrLen(LenError(Ipv4Header_MIN_LEN, Len(slice), "Slice",
                         "Ipv4Header", 0))
    ELSE IF At(slice, 0) \div 16 # 4
    THEN ErrContent([name |-> "UnexpectedVersion",
                     version_number |-> At(slice, 0) \div 16])
    ELSE IF At(slice, 0) % 16 < 5
    THEN ErrContent([name |-> "HeaderLengthSmallerThanHeader",
                     ihl |-> At(slice, 0) % 16])
    ELSE LET header_len == (At(slice, 0) % 16) * 4 IN
         IF Len(slice) < header_len
         THEN ErrLen(LenError(header_len, Len(slice), "Slice",
                              "Ipv4Header", 0))
         ELSE [kind |-> "Ok",
               header |-> Ipv4HeaderSlice_to_header(SubSeq(slice, 1, header_len)),
               rest_off |-> header_len]

\* Ipv6Header::from_slice: the header and the offset of the rest
Ipv6Header_from_slice(slice) ==
    IF Len(slice) < Ipv6Header_LEN
    THEN ErrLen(LenError(Ipv6Header_LEN, Len(slice), "Slice",
                         "Ipv6Header", 0))
    ELSE IF At(slice, 0) \div 16 # 6
    THEN ErrContent([name |-> "UnexpectedVersion",
                     version_number |-> At(slice, 0) \div 16])
    ELSE [kind |-> "Ok",
          header |-> Ipv6HeaderSlice_to_header(SubSeq(slice, 1, Ipv6Header_LEN)),
          rest_off |-> Ipv6Header_LEN]

\* fault: the octets after the fixed header reported as the available length
ipv4_from_slice_rest_rest_len(slice_len, header_rest_len, header_len, total_len) ==
    IF total_len >= header_len
    THEN LET payload_len == total_len - header_len IN
         IF payload_len > header_rest_len
         THEN ErrLen(LenError(total_len, header_rest_len, "Slice",
                              "Ipv4Packet", 0))
         ELSE [kind |-> "Ok", len |-> payload_len]
    ELSE ErrLen(LenError(header_len, total_len, "Ipv4HeaderTotalLen",
                         "Ipv4Packet", 0))

\* fault: a payload that fills the buffer exactly taken for a shortage
ipv4_from_slice_rest_strict(slice_len, header_rest_len, header_len, total_len) ==
    IF total_len >= header_len
    THEN LET payload_len == total_len - header_len IN
         IF payload_len >= header_rest_len
         THEN ErrLen(LenError(total_len, slice_len, "Slice", "Ipv4Packet", 0))
         ELSE [kind |-> "Ok", len |-> payload_len]
    ELSE ErrLen(LenError(header_len, total_len, "Ipv4HeaderTotalLen",
                         "Ipv4Packet", 0))

\* the total_len checks of ipv4_from_slice: the length of the window after
\* the fixed header, or the error
ipv4_from_slice_rest(slice_len, header_rest_len, header_len, total_len) ==
    IF total_len >= header_len
    THEN LET payload_len == total_len - header_len IN
         IF payload_len > header_rest_len
         THEN ErrLen(LenError(total_len, slice_len, "Slice", "Ipv4Packet", 0))
         ELSE [kind |-> "Ok", len |-> payload_len]
    ELSE ErrLen(LenError(header_len, total_len, "Ipv4HeaderTotalLen",
                         "Ipv4Packet", 0))

ipv4_from_slice(slice) ==
    LET hr == Ipv4Header_from_slice(slice) IN
    IF hr.kind = "Len" THEN Ret(hr, {}, {})
    ELSE IF hr.kind = "Content"
    THEN Ret([kind |-> "Header", err |-> hr.err], {}, {})
    ELSE
    LET header == hr.header
        header_len == Ipv4Header_header_len(header)
        r == ipv4_from_slice_rest(Len(slice), Len(slice) - hr.rest_off,
                                  header_len, header.total_len)
    IN
    IF r.kind # "Ok" THEN Ret(r, {<<0, hr.rest_off>>}, {})
    ELSE
    LET header_rest == RawParts(slice, hr.rest_off, r.len)
        w == {<<0, hr.rest_off>>, <<hr.rest_off, r.len>>}
        x == Ipv4Extensions_from_slice(header.protocol, header_rest)
    IN
    IF x.kind = "Len"
    THEN Ret(ErrLen([x.err EXCEPT
                       !.layer_start_offset = @ + Ipv4Header_header_len(header),
                       !.len_source = "Ipv4HeaderTotalLen"]), w, {})
    ELSE IF x.kind = "Content"
    THEN Ret([kind |-> "Exts", err |-> x.err], w, {})
    ELSE Ret(Ok(Version4(header, x.exts),
                IpPayload(x.next_header,
                          Ipv4Header_is_fragmenting_payload(header),
                          "Ipv4HeaderTotalLen",
                          hr.rest_off + x.consumed, r.len - x.consumed)),
             w \cup {<<hr.rest_off + x.consumed, r.len - x.consumed>>}, {})

\* fault: the required length without the 40 octets of the fixed header
ipv6_from_slice_window_no_header(payload_length, slice_len, header_rest_len) ==
    IF 0 = payload_length /\ slice_len > Ipv6Header_LEN
    THEN [kind |-> "Ok", len |-> header_rest_len, len_source |-> "Slice"]
    ELSE IF header_rest_len < payload_length
    THEN ErrLen(LenError(payload_length, slice_len, "Slice", "Ipv6Packet", 0))
    ELSE [kind |-> "Ok", len |-> payload_length,
          len_source |-> "Ipv6HeaderPayloadLen"]

\* the window after the IPv6 fixed header and its length source, or the
\* error
ipv6_from_slice_window(payload_length, slice_len, header_rest_len) ==
    IF 0 = payload_length /\ slice_len > Ipv6Header_LEN
    THEN [kind |-> "Ok", len |-> header_rest_len, len_source |-> "Slice"]
    ELSE IF header_rest_len < payload_length
    THEN ErrLen(LenError(payload_length + Ipv6Header_LEN, slice_len, "Slice",
                         "Ipv6Packet", 0))
    ELSE [kind |-> "Ok", len |-> payload_length,
          len_source |-> "Ipv6HeaderPayloadLen"]

ipv6_from_slice(slice) ==
    LET hr == Ipv6Header_from_slice(slice) IN
    IF hr.kind = "Len" THEN Ret(hr, {}, {})
    ELSE IF hr.kind = "Content"
    THEN Ret([kind |-> "Header", err |-> hr.err], {}, {})
    ELSE
    LET header == hr.header
        r == ipv6_from_slice_window(header.payload_length, Len(slice),
                                    Len(slice) - hr.rest_off)
    IN
    IF r.kind # "Ok" THEN Ret(r, {<<0, hr.rest_off>>}, {})
    ELSE
    LET header_payload == RawParts(slice, hr.rest_off, r.len)
        w == {<<0, hr.rest_off>>, <<hr.rest_off, r.len>>}
        x == Ipv6Extensions_from_slice(header.next_header, header_payload)
    IN
    IF x.kind = "Len"
    THEN Ret(ErrLen([x.err EXCEPT
                       !.layer_start_offset = @ + Ipv6Header_LEN,
                       !.len_source = r.len_source]), w, {})
    ELSE IF x.kind = "Content"
    THEN Ret([kind |-> "Exts", err |-> x.err], w, {})
    ELSE Ret(Ok(Version6(header, x.exts),
                IpPayload(x.next_header,
                          Ipv6Extensions_is_fragmenting_payload(x.exts),
                          r.len_source,
                          hr.rest_off + x.consumed, r.len - x.consumed)),
             w \cup {<<hr.rest_off + x.consumed, r.len - x.consumed>>}, {})

(***************************************************************************)
(* IpHeader::read over a byte stream                                       *)
(***************************************************************************)
\* LimitedReader::read_exact of n octets in a layer that began with
\* `budget` octets of the limit left and `avail` octets in the stream
LimitedRead(n, budget, avail, len_source, layer, layer_offset) ==
    IF budget < n
    THEN ErrLen(LenError(n, budget, len_source, layer, layer_offset))
    ELSE IF avail < n THEN ErrIo
    ELSE [kind |-> "Ok"]

\* one extension header read through the limited reader from the stream
\* rest s: its length, or the error
Ext_read_limited(ip_number, s, budget, len_source, layer_offset) ==
    LET layer == CASE ip_number = AUTH -> "IpAuthHeader"
                   [] ip_number = IPV6_FRAG -> "Ipv6FragHeader"
                   [] OTHER -> "Ipv6ExtHeader"
        first == IF ip_number = AUTH THEN IpAuthHeader_MIN_LEN ELSE 2
        r1 == LimitedRead(first, budget, Len(s), len_source, layer, layer_offset)
    IN
    IF r1.kind # "Ok" THEN r1
    ELSE IF ip_number = AUTH /\ At(s, 1) = 0
    THEN ErrContent([name |-> "ZeroPayloadLen"])
    ELSE LET len == CASE ip_number = AUTH -> (At(s, 1) + 2) * 4
                      [] ip_number = IPV6_FRAG -> Ipv6FragmentHeader_LEN
                      [] OTHER -> (At(s, 1) + 1) * 8
             r2 == LimitedRead(len, budget, Len(s), len_source, layer,
                               layer_offset)
         IN IF r2.kind # "Ok" THEN r2 ELSE [kind |-> "Ok", len |-> len]

\* Ipv4Extensions::read_limited
Ipv4Extensions_read_limited(s, budget, len_source, layer_offset, start_ip_number) ==
    IF start_ip_number = AUTH
    THEN LET a == Ext_read_limited(AUTH, s, budget, len_source, layer_offset) IN
         IF a.kind = "Ok"
         THEN LET h == IpAuthHeaderSlice_to_header(SubSeq(s, 1, a.len)) IN
              WalkOk([auth |-> Some(h)], h.next_header, a.len)
         ELSE a
    ELSE WalkOk([auth |-> None], start_ip_number, 0)

RECURSIVE Ipv6Ext_read_walk(_, _, _, _, _, _, _)
Ipv6Ext_read_walk(s, off, budget, len_source, layer_offset, next_header, exts) ==
    IF next_header \notin Ipv6ExtNumbers
    THEN WalkOk(exts, next_header, off)
    ELSE LET rest == SubSeq(s, off + 1, Len(s))
             x == Ext_read_limited(next_header, rest, budget - off, len_source,
                                   layer_offset + off)
         IN  IF x.kind = "Ok"
             THEN Ipv6Ext_read_walk(s, off + x.len, budget, len_source,
                      layer_offset, At(rest, 0),
                      Ipv6Ext_record(exts, next_header, SubSeq(rest, 1, x.len)))
             ELSE Ipv6Ext_wrap(x)

\* Ipv6Extensions::read_limited
Ipv6Extensions_read_limited(s, budget, len_source, layer_offset, start_ip_number) ==
    Ipv6Ext_read_walk(s, 0, budget, len_source, layer_offset, start_ip_number,
                      Ipv6Extensions_default)

ReadOk(header, ip_number) ==
    [kind |-> "Ok", header |-> header, ip_number |-> ip_number]

\* fault: the limit of the reader not reduced by the fixed header
read_v4_limit_total_len(stream) ==
    LET value == At(stream, 0)
        ihl == value % 16
    IN
    IF ihl < 5
    THEN ErrContent([name |-> "Ipv4HeaderLengthSmallerThanHeader", ihl |-> ihl])
    ELSE
    LET header_len == ihl * 4 IN
    IF Len(stream) < header_len THEN ErrIo
    ELSE
    LET header == Ipv4HeaderSlice_to_header(SubSeq(stream, 1, header_len))
        total_len == header.total_len
    IN
    IF total_len < header_len
    THEN ErrLen(LenError(header_len, total_len, "Ipv4HeaderTotalLen",
                         "Ipv4Packet", 0))
    ELSE
    LET x == Ipv4Extensions_read_limited(
                 SubSeq(stream, header_len + 1, Len(stream)),
                 total_len, "Ipv4HeaderTotalLen", header_len,
                 header.protocol)
    IN
    IF x.kind = "Ok" THEN ReadOk(Version4(header, x.exts), x.next_header)
    ELSE IF x.kind = "Content"
    THEN ErrContent([name |-> "Ipv4Ext", inner |-> x.err])
    ELSE x

read_v4(stream) ==
    LET value == At(stream, 0)
        ihl == value % 16
    IN
    IF ihl < 5
    THEN ErrContent([name |-> "Ipv4HeaderLengthSmallerThanHeader", ihl |-> ihl])
    ELSE
    LET header_len == ihl * 4 IN
    IF Len(stream) < header_len THEN ErrIo
    ELSE
    LET header == Ipv4HeaderSlice_to_header(SubSeq(stream, 1, header_len))
        total_len == header.total_len
    IN
    IF total_len < header_len
    THEN ErrLen(LenError(header_len, total_len, "Ipv4HeaderTotalLen",
                         "Ipv4Packet", 0))
    ELSE
    LET x == Ipv4Extensions_read_limited(
                 SubSeq(stream, header_len + 1, Len(stream)),
                 total_len - header_len, "Ipv4HeaderTotalLen", header_len,
                 header.protocol)
    IN
    IF x.kind = "Ok" THEN ReadOk(Version4(header, x.exts), x.next_header)
    ELSE IF x.kind = "Content"
    THEN ErrContent([name |-> "Ipv4Ext", inner |-> x.err])
    ELSE x

read_v6(stream) ==
    IF Len(stream) < Ipv6Header_LEN THEN ErrIo
    ELSE
    LET header == Ipv6HeaderSlice_to_header(SubSeq(stream, 1, Ipv6Header_LEN))
        x == Ipv6Extensions_read_limited(
                 SubSeq(stream, Ipv6Header_LEN + 1, Len(stream)),
                 header.payload_length, "Ipv6HeaderPayloadLen",
                 Ipv6Header_LEN, header.next_header)
    IN
    IF x.kind = "Ok" THEN ReadOk(Version6(header, x.exts), x.next_header)
    ELSE IF x.kind = "Content"
    THEN ErrContent([name |-> "Ipv6Ext", inner |-> x.err])
    ELSE x

read(stream) ==
    IF Len(stream) < 1 THEN ErrIo
    ELSE LET version_number == At(stream, 0) \div 16 IN
         CASE version_number = 4 -> read_v4(stream)
           [] version_number = 6 -> read_v6(stream)
           [] OTHER -> ErrContent([name |-> "UnsupportedIpVersion",
                                   version_number |-> version_number])

(***************************************************************************)
(* IpHeader::write, header_len, next_header                                *)
(***************************************************************************)
ExtNotReferenced(missing_ext) ==
    [name |-> "ExtNotReferenced", missing_ext |-> missing_ext]

\* Ipv4Extensions::write(writer, start_ip_number): the octets emitted
Ipv4Extensions_write(e, start_ip_number) ==
    IF e.auth.some
    THEN IF start_ip_number = AUTH
         THEN [kind |-> "Ok", bytes |-> IpAuthHeader_write(e.auth.v)]
         ELSE [kind |-> "Content", err |-> ExtNotReferenced(AUTH), bytes |-> <<>>]
    ELSE [kind |-> "Ok", bytes |-> <<>>]

\* Ipv4Extensions::next_header(first_next_header)
Ipv4Extensions_next_header(e, first_next_header) ==
    IF e.auth.some
    THEN IF first_next_header = AUTH
         THEN [kind |-> "Ok", v |-> e.auth.v.next_header]
         ELSE [kind |-> "Err", err |-> ExtNotReferenced(AUTH)]
    ELSE [kind |-> "Ok", v |-> first_next_header]

\* the extensions present, in the order they are emitted
Ipv6Extensions_present(e) ==
    LET all == <<
          [some |-> e.hop_by_hop_options.some, ip_number |-> IPV6_HOP_BY_HOP,
           next_header |-> IF e.hop_by_hop_options.some
                           THEN e.hop_by_hop_options.v.next_header ELSE 0,
           bytes |-> IF e.hop_by_hop_options.some
                     THEN Ipv6RawExtHeader_write(e.hop_by_hop_options.v)
                     ELSE <<>>],
          [some |-> e.routing.some, ip_number |-> IPV6_ROUTE,
           next_header |-> IF e.routing.some
                           THEN e.routing.v.next_header ELSE 0,
           bytes |-> IF e.routing.some
                     THEN Ipv6RawExtHeader_write(e.routing.v) ELSE <<>>],
          [some |-> e.fragment.some, ip_number |-> IPV6_FRAG,
           next_header |-> IF e.fragment.some
                           THEN e.fragment.v.next_header ELSE 0,
           bytes |-> IF e.fragment.some
                     THEN Ipv6FragmentHeader_write(e.fragment.v) ELSE <<>>],
          [some |-> e.destination_options.some, ip_number |-> IPV6_DEST_OPTIONS,
           next_header |-> IF e.destination_options.some
                           THEN e.destination_options.v.next_header ELSE 0,
           bytes |-> IF e.destination_options.some
                     THEN Ipv6RawExtHeader_write(e.destination_options.v)
                     ELSE <<>>],
          [some |-> e.auth.some, ip_number |-> AUTH,
           next_header |-> IF e.auth.some THEN e.auth.v.next_header ELSE 0,
           bytes |-> IF e.auth.some THEN IpAuthHeader_write(e.auth.v)
                     ELSE <<>>] >>
        IsSome(x) == x.some
    IN SelectSeq(all, IsSome)

\* the chain check: every extension present is referenced by the one
\* before it; yields the terminal next_header
RECURSIVE Ipv6Ext_chain(_, _, _)
Ipv6Ext_chain(p, i, cur) ==
    IF i > Len(p) THEN [kind |-> "Ok", v |-> cur]
    ELSE IF cur = p[i].ip_number THEN Ipv6Ext_chain(p, i + 1, p[i].next_header)
    ELSE [kind |-> "Err", err |-> ExtNotReferenced(p[i].ip_number)]

\* Ipv6Extensions::next_header(first_next_header)
Ipv6Extensions_next_header(e, first_next_header) ==
    Ipv6Ext_chain(Ipv6Extensions_present(e), 1, first_next_header)

RECURSIVE ConcatBytes(_, _)
ConcatBytes(p, i) ==
    IF i > Len(p) THEN <<>> ELSE p[i].bytes \o ConcatBytes(p, i + 1)

\* Ipv6Extensions::write(writer, first_header): the chain is checked
\* before anything is emitted
Ipv6Extensions_write(e, first_header) ==
    LET p == Ipv6Extensions_present(e)
        c == Ipv6Ext_chain(p, 1, first_header)
    IN IF c.kind = "Ok"
       THEN [kind |-> "Ok", bytes |-> ConcatBytes(p, 1)]
       ELSE [kind |-> "Content", err |-> c.err, bytes |-> <<>>]

\* fault: the error of the extensions' write dropped
write_ignore_exts_err(h) ==
    IF h.version = 4
    THEN LET fixed == Ipv4Header_write(h.header)
             x == Ipv4Extensions_write(h.exts, h.header.protocol)
         IN [out |-> [kind |-> "Ok"], sink |-> fixed \o x.bytes]
    ELSE LET fixed == Ipv6Header_write(h.header)
             x == Ipv6Extensions_write(h.exts, h.header.next_header)
         IN [out |-> [kind |-> "Ok"], sink |-> fixed \o x.bytes]

\* fault: the extensions emitted ahead of the fixed header
write_exts_first(h) ==
    IF h.version = 4
    THEN LET fixed == Ipv4Header_write(h.header)
             x == Ipv4Extensions_write(h.exts, h.header.protocol)
         IN IF x.kind = "Ok"
            THEN [out |-> [kind |-> "Ok"], sink |-> x.bytes \o fixed]
            ELSE [out |-> [kind |-> "Ipv4Exts", err |-> x.err],
                  sink |-> x.bytes \o fixed]
    ELSE LET fixed == Ipv6Header_write(h.header)
             x == Ipv6Extensions_write(h.exts, h.header.next_header)
         IN IF x.kind = "Ok"
            THEN [out |-> [kind |-> "Ok"], sink |-> x.bytes \o fixed]
            ELSE [out |-> [kind |-> "Ipv6Exts", err |-> x.err],
                  sink |-> x.bytes \o fixed]

\* fault: nothing reaches the sink when the extensions are turned away
write_nothing_on_err(h) ==
    IF h.version = 4
    THEN LET fixed == Ipv4Header_write(h.header)
             x == Ipv4Extensions_write(h.exts, h.header.protocol)
         IN IF x.kind = "Ok"
            THEN [out |-> [kind |-> "Ok"], sink |-> fixed \o x.bytes]
            ELSE [out |-> [kind |-> "Ipv4Exts", err |-> x.err], sink |-> <<>>]
    ELSE LET fixed == Ipv6Header_write(h.header)
             x == Ipv6Extensions_write(h.exts, h.header.next_header)
         IN IF x.kind = "Ok"
            THEN [out |-> [kind |-> "Ok"], sink |-> fixed \o x.bytes]
            ELSE [out |-> [kind |-> "Ipv6Exts", err |-> x.err], sink |-> <<>>]

\* IpHeader::write into a growable sink: the result and the octets that
\* reached the sink
write(h) ==
    IF h.version = 4
    THEN LET fixed == Ipv4Header_write(h.header)
             x == Ipv4Extensions_write(h.exts, h.header.protocol)
         IN IF x.kind = "Ok"
            THEN [out |-> [kind |-> "Ok"], sink |-> fixed \o x.bytes]
            ELSE [out |-> [kind |-> "Ipv4Exts", err |-> x.err],
                  sink |-> fixed \o x.bytes]
    ELSE LET fixed == Ipv6Header_write(h.header)
             x == Ipv6Extensions_write(h.exts, h.header.next_header)
         IN IF x.kind = "Ok"
            THEN [out |-> [kind |-> "Ok"], sink |-> fixed \o x.bytes]
            ELSE [out |-> [kind |-> "Ipv6Exts", err |-> x.err],
                  sink |-> fixed \o x.bytes]

\* IpHeader::header_len
header_len(h) ==
    IF h.version = 4
    THEN Ipv4Header_header_len(h.header) + Ipv4Extensions_header_len(h.exts)
    ELSE Ipv6Header_LEN + Ipv6Extensions_header_len(h.exts)

\* IpHeader::next_header
next_header(h) ==
    IF h.version = 4
    THEN LET r == Ipv4Extensions_next_header(h.exts, h.header.protocol) IN
         IF r.kind = "Ok" THEN r ELSE [kind |-> "Ipv4Exts", err |-> r.err]
    ELSE LET r == Ipv6Extensions_next_header(h.exts, h.header.next_header) IN
         IF r.kind = "Ok" THEN r ELSE [kind |-> "Ipv6Exts", err |-> r.err]

\* IpHeader::is_fragmenting_payload
is_fragmenting_payload(h) ==
    IF h.version = 4
    THEN Ipv4Header_is_fragmenting_payload(h.header)
    ELSE Ipv6Extensions_is_fragmenting_payload(h.exts)

(***************************************************************************)
(* Setting the next_header chain (used to build well-formed headers)       *)
(***************************************************************************)
\* Ipv4Extensions::set_next_headers(last): the extensions and the value
\* for the fixed header's protocol field
Ipv4Extensions_set_next_headers(e, last) ==
    IF e.auth.some
    THEN [exts |-> [auth |-> Some([e.auth.v EXCEPT !.next_header = last])],
          first |-> AUTH]
    ELSE [exts |-> e, first |-> last]

SetNext(slot, n) ==
    IF slot.some THEN Some([slot.v EXCEPT !.next_header = n]) ELSE slot

\* Ipv6Extensions::set_next_headers(last): links the extensions present
\* in emission order
Ipv6Extensions_set_next_headers(e, last) ==
    LET n1 == IF e.auth.some THEN AUTH ELSE last
        n2 == IF e.destination_options.some THEN IPV6_DEST_OPTIONS ELSE n1
        n3 == IF e.fragment.some THEN IPV6_FRAG ELSE n2
        n4 == IF e.routing.some THEN IPV6_ROUTE ELSE n3
        n5 == IF e.hop_by_hop_options.some THEN IPV6_HOP_BY_HOP ELSE n4
    IN [exts |-> [hop_by_hop_options |-> SetNext(e.hop_by_hop_options, n4),
                  routing |-> SetNext(e.routing, n3),
                  fragment |-> SetNext(e.fragment, n2),
                  destination_options |-> SetNext(e.destination_options, n1),
                  auth |-> SetNext(e.auth, last)],
        first |-> n5]

\* fault: the fixed header's field not assigned
set_next_headers_exts_only(h, last_next_header) ==
    IF h.version = 4
    THEN LET s == Ipv4Extensions_set_next_headers(h.exts, last_next_header) IN
         [header |-> Version4(h.header, s.exts), out |-> EtherType_IPV4]
    ELSE LET s == Ipv6Extensions_set_next_headers(h.exts, last_next_header) IN
         [header |-> Version6(h.header, s.exts), out |-> EtherType_IPV4]

\* IpHeader::set_next_headers(last_next_header): the header afterwards and
\* the number returned
set_next_headers(h, last_next_header) ==
    IF h.version = 4
    THEN LET s == Ipv4Extensions_set_next_headers(h.exts, last_next_header) IN
         [header |-> Version4([h.header EXCEPT !.protocol = s.first], s.exts),
          out |-> EtherType_IPV4]
    ELSE LET s == Ipv6Extensions_set_next_headers(h.exts, last_next_header) IN
         [header |-> Version6([h.header EXCEPT !.next_header = s.first], s.exts),
          out |-> EtherType_IPV4]

(***************************************************************************)
(* IpHeader::set_payload_len                                               *)
(***************************************************************************)
\* a usize is either a number far below usize::MAX or usize::MAX - v
USize(v) == [max_minus |-> FALSE, v |-> v]
USizeMaxMinus(v) == [max_minus |-> TRUE, v |-> v]

\* usize::checked_add of a usize and a small number
checked_add(a, e) ==
    IF a.max_minus
    THEN IF e > a.v THEN None ELSE Some(USizeMaxMinus(a.v - e))
    ELSE Some(USize(a.v + e))

ValueTooBigError(actual, max_allowed, value_type) ==
    [kind |-> "ValueTooBig", actual |-> actual, max_allowed |-> max_allowed,
     value_type |-> value_type]

\* Ipv4Header::set_payload_len(value): the result and the header afterwards
Ipv4Header_set_payload_len(h, value) ==
    LET max_allowed == U16_MAX - Ipv4Header_header_len(h) IN
    IF value.max_minus \/ value.v > max_allowed
    THEN [out |-> ValueTooBigError(value, max_allowed, "Ipv4PayloadLength"),
          header |-> h]
    ELSE [out |-> [kind |-> "Ok"],
          header |-> [h EXCEPT !.total_len = Ipv4Header_header_len(h) + value.v]]

\* Ipv6Header::set_payload_length(value)
Ipv6Header_set_payload_length(h, value) ==
    IF value.max_minus \/ value.v > U16_MAX
    THEN [out |-> ValueTooBigError(value, U16_MAX, "Ipv6PayloadLength"),
          header |-> h]
    ELSE [out |-> [kind |-> "Ok"],
          header |-> [h EXCEPT !.payload_length = value.v]]

\* fault: the extension headers left out of the length
set_payload_len_no_exts(h, len) ==
    IF h.version = 4
    THEN LET r == Ipv4Header_set_payload_len(h.header, len) IN
         [out |-> r.out, header |-> Version4(r.header, h.exts)]
    ELSE LET r == Ipv6Header_set_payload_length(h.header, len) IN
         [out |-> r.out, header |-> Version6(r.header, h.exts)]

\* IpHeader::set_payload_len(len): the result and the header afterwards
set_payload_len(h, len) ==
    IF h.version = 4
    THEN LET complete_len == checked_add(len, Ipv4Extensions_header_len(h.exts)) IN
         IF complete_len.some
         THEN LET r == Ipv4Header_set_payload_len(h.header, complete_len.v) IN
              [out |-> r.out, header |-> Version4(r.header, h.exts)]
         ELSE [out |-> ValueTooBigError(len,
                           U16_MAX - Ipv4Header_header_len(h.header)
                                   - Ipv4Extensions_header_len(h.exts),
                           "Ipv4PayloadLength"),
               header |-> h]
    ELSE LET complete_len == checked_add(len, Ipv6Extensions_header_len(h.exts)) IN
         IF complete_len.some
         THEN LET r == Ipv6Header_set_payload_length(h.header, complete_len.v) IN
              [out |-> r.out, header |-> Version6(r.header, h.exts)]
         ELSE [out |-> ValueTooBigError(len,
                           U16_MAX - Ipv6Extensions_header_len(h.exts),
                           "Ipv4PayloadLength"),
               header |-> h]

(***************************************************************************)
(* ICMPv6: the 8-octet header and its tagged message variants              *)
(***************************************************************************)
TYPE_DST_UNREACH == 1
TYPE_PACKET_TOO_BIG == 2
TYPE_TIME_EXCEEDED == 3
TYPE_PARAM_PROB == 4
TYPE_ECHO_REQUEST == 128
TYPE_ECHO_REPLY == 129

CODE_DST_UNREACH_NOROUTE == 0
CODE_DST_UNREACH_PROHIBITED == 1
CODE_DST_UNREACH_BEYONDSCOPE == 2
CODE_DST_UNREACH_ADDR == 3
CODE_DST_UNREACH_PORT == 4
CODE_DST_UNREACH_SOURCE_ADDRESS_FAILED_POLICY == 5
CODE_DST_UNREACH_REJECT_ROUTE_TO_DEST == 6

CODE_TIME_EXCEEDED_HOP_LIMIT_EXCEEDED == 0
CODE_TIME_EXCEEDED_FRAGMENT_REASSEMBLY_TIME_EXCEEDED == 1

Icmpv6Header_MIN_SERIALIZED_SIZE == 8

\* ReadError::UnexpectedEndOfSlice(expected_min_len)
UnexpectedEndOfSlice(expected_min_len) ==
    [kind |-> "UnexpectedEndOfSlice", expected_min_len |-> expected_min_len]

\* icmpv6::DestUnreachableHeader::from_bytes
DestUnreachableHeader_from_bytes(code, bytes5to8) ==
    CASE code = CODE_DST_UNREACH_NOROUTE -> [name |-> "NoRoute"]
      [] code = CODE_DST_UNREACH_PROHIBITED -> [name |-> "Prohibited"]
      [] code = CODE_DST_UNREACH_BEYONDSCOPE -> [name |-> "BeyondScope"]
      [] code = CODE_DST_UNREACH_ADDR -> [name |-> "Address"]
      [] code = CODE_DST_UNREACH_PORT -> [name |-> "Port"]
      [] code = CODE_DST_UNREACH_SOURCE_ADDRESS_FAILED_POLICY ->
            [name |-> "SourceAddressFailedPolicy"]
      [] code = CODE_DST_UNREACH_REJECT_ROUTE_TO_DEST -> [name |-> "RejectRoute"]
      [] OTHER -> [name |-> "Raw", code |-> code, bytes5to8 |-> bytes5to8]

\* impl From<u8> for icmpv6::TimeExceededCode
TimeExceededCode_from(code) ==
    CASE code = CODE_TIME_EXCEEDED_HOP_LIMIT_EXCEEDED -> [name |-> "HopLimitExceeded"]
      [] code = CODE_TIME_EXCEEDED_FRAGMENT_REASSEMBLY_TIME_EXCEEDED ->
            [name |-> "FragmentReassemblyTimeExceeded"]
      [] OTHER -> [name |-> "Raw", code |-> code]

\* impl From<u8> for icmpv6::ParameterProblemCode
ParameterProblemCode_from(code) == [name |-> "Raw", code |-> code]

\* IcmpEchoHeader::from_bytes: id (be u16) || seq (be u16)
IcmpEchoHeader_from_bytes(bytes5to8) ==
    [id |-> U16BE(bytes5to8, 0), seq |-> U16BE(bytes5to8, 2)]

\* fault: the two echo types are taken for each other
Icmp6Type_from_bytes_echo_swapped(icmp_type, icmp_code, bytes5to8) ==
    CASE icmp_type = TYPE_DST_UNREACH ->
            [name |-> "DestinationUnreachable",
             header |-> DestUnreachableHeader_from_bytes(icmp_code, bytes5to8)]
      [] icmp_type = TYPE_PACKET_TOO_BIG ->
            [name |-> "PacketTooBig", mtu |-> U32BE(bytes5to8, 0)]
      [] icmp_type = TYPE_TIME_EXCEEDED ->
            [name |-> "TimeExceeded", code |-> TimeExceededCode_from(icmp_code)]
      [] icmp_type = TYPE_PARAM_PROB ->
            [name |-> "ParameterProblem",
             code |-> ParameterProblemCode_from(icmp_code),
             pointer |-> U32BE(bytes5to8, 0)]
      [] icmp_type = TYPE_ECHO_REQUEST ->
            [name |-> "EchoReply", echo |-> IcmpEchoHeader_from_bytes(bytes5to8)]
      [] icmp_type = TYPE_ECHO_REPLY ->
            [name |-> "EchoRequest", echo |-> IcmpEchoHeader_from_bytes(bytes5to8)]
      [] OTHER ->
            [name |-> "Raw", icmp_type |-> icmp_type, icmp_code |-> icmp_code,
             bytes5to8 |-> bytes5to8]

\* Icmp6Type::from_bytes
Icmp6Type_from_bytes(icmp_type, icmp_code, bytes5to8) ==
    CASE icmp_type = TYPE_DST_UNREACH ->
            [name |-> "DestinationUnreachable",
             header |-> DestUnreachableHeader_from_bytes(icmp_code, bytes5to8)]
      [] icmp_type = TYPE_PACKET_TOO_BIG ->
            [name |-> "PacketTooBig", mtu |-> U32BE(bytes5to8, 0)]
      [] icmp_type = TYPE_TIME_EXCEEDED ->
            [name |-> "TimeExceeded", code |-> TimeExceededCode_from(icmp_code)]
      [] icmp_type = TYPE_PARAM_PROB ->
            [name |-> "ParameterProblem",
             code |-> ParameterProblemCode_from(icmp_code),
             pointer |-> U32BE(bytes5to8, 0)]
      [] icmp_type = TYPE_ECHO_REQUEST ->
            [name |-> "EchoRequest", echo |-> IcmpEchoHeader_from_bytes(bytes5to8)]
      [] icmp_type = TYPE_ECHO_REPLY ->
            [name |-> "EchoReply", echo |-> IcmpEchoHeader_from_bytes(bytes5to8)]
      [] OTHER ->
            [name |-> "Raw", icmp_type |-> icmp_type, icmp_code |-> icmp_code,
             bytes5to8 |-> bytes5to8]

\* icmpv6::DestUnreachableHeader::code
DestUnreachableHeader_code(h) ==
    CASE h.name = "Raw" -> h.code
      [] h.name = "NoRoute" -> CODE_DST_UNREACH_NOROUTE
      [] h.name = "Prohibited" -> CODE_DST_UNREACH_PROHIBITED
      [] h.name = "BeyondScope" -> CODE_DST_UNREACH_BEYONDSCOPE
      [] h.name = "Address" -> CODE_DST_UNREACH_ADDR
      [] h.name = "Port" -> CODE_DST_UNREACH_PORT
      [] h.name = "SourceAddressFailedPolicy" ->
            CODE_DST_UNREACH_SOURCE_ADDRESS_FAILED_POLICY
      [] h.name = "RejectRoute" -> CODE_DST_UNREACH_REJECT_ROUTE_TO_DEST

\* impl From<icmpv6::TimeExceededCode> for u8
TimeExceededCode_into_u8(code) ==
    CASE code.name = "Raw" -> code.code
      [] code.name = "HopLimitExceeded" -> CODE_TIME_EXCEEDED_HOP_LIMIT_EXCEEDED
      [] code.name = "FragmentReassemblyTimeExceeded" ->
            CODE_TIME_EXCEEDED_FRAGMENT_REASSEMBLY_TIME_EXCEEDED

\* impl From<icmpv6::ParameterProblemCode> for u8
ParameterProblemCode_into_u8(code) == code.code

\* IcmpEchoHeader::to_bytes: id (be u16) || seq (be u16)
IcmpEchoHeader_to_bytes(echo) == BE16(echo.id) \o BE16(echo.seq)

\* u32::to_be_bytes of a u32 held as <<high, low>>
U32_to_be_bytes(x) == BE16(x[1]) \o BE16(x[2])

\* Icmp6Type::type_value
Icmp6Type_type_value(t) ==
    CASE t.name = "Raw" -> t.icmp_type
      [] t.name = "DestinationUnreachable" -> TYPE_DST_UNREACH
      [] t.name = "PacketTooBig" -> TYPE_PACKET_TOO_BIG
      [] t.name = "TimeExceeded" -> TYPE_TIME_EXCEEDED
      [] t.name = "ParameterProblem" -> TYPE_PARAM_PROB
      [] t.name = "EchoRequest" -> TYPE_ECHO_REQUEST
      [] t.name = "EchoReply" -> TYPE_ECHO_REPLY

\* Icmp6Type::code_value
Icmp6Type_code_value(t) ==
    CASE t.name = "Raw" -> t.icmp_code
      [] t.name = "DestinationUnreachable" -> DestUnreachableHeader_code(t.header)
      [] t.name = "PacketTooBig" -> 0
      [] t.name = "TimeExceeded" -> TimeExceededCode_into_u8(t.code)
      [] t.name = "ParameterProblem" -> ParameterProblemCode_into_u8(t.code)
      [] t.name = "EchoRequest" -> 0
      [] t.name = "EchoReply" -> 0

\* fault: the Raw variant loses its last four octets
Icmp6Type_to_bytes_raw_zeroed(t) ==
    CASE t.name = "Raw" -> <<t.icmp_type, t.icmp_code, <<0, 0, 0, 0>>>>
      [] t.name = "DestinationUnreachable" ->
            <<TYPE_DST_UNREACH, DestUnreachableHeader_code(t.header), <<0, 0, 0, 0>>>>
      [] t.name = "PacketTooBig" ->
            <<TYPE_PACKET_TOO_BIG, 0, U32_to_be_bytes(t.mtu)>>
      [] t.name = "TimeExceeded" ->
            <<TYPE_TIME_EXCEEDED, TimeExceededCode_into_u8(t.code), <<0, 0, 0, 0>>>>
      [] t.name = "ParameterProblem" ->
            <<TYPE_PARAM_PROB, ParameterProblemCode_into_u8(t.code),
              U32_to_be_bytes(t.pointer)>>
      [] t.name = "EchoRequest" ->
            <<TYPE_ECHO_REQUEST, 0, IcmpEchoHeader_to_bytes(t.echo)>>
      [] t.name = "EchoReply" ->
            <<TYPE_ECHO_REPLY, 0, IcmpEchoHeader_to_bytes(t.echo)>>

\* Icmp6Type::to_bytes: (type, code, bytes5to8)
Icmp6Type_to_bytes(t) ==
    CASE t.name = "Raw" -> <<t.icmp_type, t.icmp_code, t.bytes5to8>>
      [] t.name = "DestinationUnreachable" ->
            <<TYPE_DST_UNREACH, DestUnreachableHeader_code(t.header), <<0, 0, 0, 0>>>>
      [] t.name = "PacketTooBig" ->
            <<TYPE_PACKET_TOO_BIG, 0, U32_to_be_bytes(t.mtu)>>
      [] t.name = "TimeExceeded" ->
            <<TYPE_TIME_EXCEEDED, TimeExceededCode_into_u8(t.code), <<0, 0, 0, 0>>>>
      [] t.name = "ParameterProblem" ->
            <<TYPE_PARAM_PROB, ParameterProblemCode_into_u8(t.code),
              U32_to_be_bytes(t.pointer)>>
      [] t.name = "EchoRequest" ->
            <<TYPE_ECHO_REQUEST, 0, IcmpEchoHeader_to_bytes(t.echo)>>
      [] t.name = "EchoReply" ->
            <<TYPE_ECHO_REPLY, 0, IcmpEchoHeader_to_bytes(t.echo)>>

\* fault: the checksum is written low octet first
Icmpv6Header_to_bytes_le_checksum(h) ==
    LET b == Icmp6Type_to_bytes(h.icmp_type)
        checksum_be == BE16(h.checksum)
    IN <<b[1], b[2], checksum_be[2], checksum_be[1],
         b[3][1], b[3][2], b[3][3], b[3][4]>>

\* Icmpv6Header::to_bytes
Icmpv6Header_to_bytes(h) ==
    LET b == Icmp6Type_to_bytes(h.icmp_type)
        checksum_be == BE16(h.checksum)
    IN <<b[1], b[2], checksum_be[1], checksum_be[2],
         b[3][1], b[3][2], b[3][3], b[3][4]>>

\* Icmp6Type::header_len
Icmp6Type_header_len(t) == 8

\* Icmpv6Header::header_len
Icmpv6Header_header_len(h) == Icmp6Type_header_len(h.icmp_type)

\* fault: a buffer of exactly the minimum size is turned away as well
Icmpv6HeaderSlice_from_slice_inclusive(slice) ==
    IF Len(slice) <= Icmpv6Header_MIN_SERIALIZED_SIZE
    THEN [kind |-> "Err",
          err |-> UnexpectedEndOfSlice(Icmpv6Header_MIN_SERIALIZED_SIZE)]
    ELSE [kind |-> "Ok",
          slice |-> RawParts(slice, 0, Icmpv6Header_MIN_SERIALIZED_SIZE)]

\* Icmpv6HeaderSlice::from_slice: the length check, then a view of the
\* first 8 octets
Icmpv6HeaderSlice_from_slice(slice) ==
    IF Len(slice) < Icmpv6Header_MIN_SERIALIZED_SIZE
    THEN [kind |-> "Err",
          err |-> UnexpectedEndOfSlice(Icmpv6Header_MIN_SERIALIZED_SIZE)]
    ELSE [kind |-> "Ok",
          slice |-> RawParts(slice, 0, Icmpv6Header_MIN_SERIALIZED_SIZE)]

\* Icmpv6HeaderSlice::type_value
Icmpv6HeaderSlice_type_value(s) == At(s, 0)

\* Icmpv6HeaderSlice::code_value: reads the octet at index 0
Icmpv6HeaderSlice_code_value(s) == At(s, 0)

\* Icmpv6HeaderSlice::bytes5to8
Icmpv6HeaderSlice_bytes5to8(s) == <<At(s, 4), At(s, 5), At(s, 6), At(s, 7)>>

\* Icmpv6HeaderSlice::slice
Icmpv6HeaderSlice_slice(s) == s

\* Icmpv6HeaderSlice::checksum
Icmpv6HeaderSlice_checksum(s) == U16BE(s, 2)

\* Icmpv6HeaderSlice::to_header
Icmpv6HeaderSlice_to_header(s) ==
    [icmp_type |-> Icmp6Type_from_bytes(At(s, 0), At(s, 1), RawParts(s, 4, 4)),
     checksum |-> Icmpv6HeaderSlice_checksum(s)]

\* Icmpv6Header::from_slice: Ok((header, &slice[len..])); the index
\* expression panics when len is past the end of the slice
Icmpv6Header_from_slice(slice) ==
    LET s == Icmpv6HeaderSlice_from_slice(slice) IN
    IF s.kind = "Err" THEN s.err
    ELSE LET header == Icmpv6HeaderSlice_to_header(s.slice)
             len == Icmpv6Header_header_len(header)
         IN IF len > Len(slice) THEN [kind |-> "Panic"]
            ELSE [kind |-> "Ok", header |-> header,
                  rest |-> SubSeq(slice, len + 1, Len(slice))]

(***************************************************************************)
(* ICMPv6 checksum                                                         *)
(***************************************************************************)
IPV6_ICMP == 58

\* a length that may pass 2^31 is held as <<high, low>> with value
\* high * 65536 + low (the model's integers are 32-bit signed)
Wide(n) == <<n \div 65536, n % 65536>>
WideAdd(a, n) == <<a[1] + ((a[2] + n) \div 65536), (a[2] + n) % 65536>>
WideSub(a, n) == IF a[2] >= n THEN <<a[1], a[2] - n>>
                 ELSE <<a[1] - 1, a[2] + 65536 - n>>
WideLess(a, b) == a[1] < b[1] \/ (a[1] = b[1] /\ a[2] < b[2])

\* std::u32::MAX as usize
U32_MAX == <<65535, 65535>>

\* a payload slice: the octets of head followed by `zeros` octets of value 0
Payload_len(payload) == WideAdd(payload.zeros, Len(payload.head))

\* ValueError::Ipv6PayloadLengthTooLarge(len)
Ipv6PayloadLengthTooLarge(len) ==
    [kind |-> "Ipv6PayloadLengthTooLarge", len |-> len]

\* u16::from_ne_bytes on a little-endian target
U16NE(b, i) == At(b, i) + At(b, i + 1) * 256

\* checksum::Sum16BitWords: the words are added in native byte order
RECURSIVE Sum16BitWords_add_slice(_, _, _)
Sum16BitWords_add_slice(sum, b, i) ==
    IF i >= Len(b) THEN sum
    ELSE Sum16BitWords_add_slice(sum + U16NE(b, i), b, i + 2)

Sum16BitWords_add_2bytes(sum, b) == sum + U16NE(b, 0)
Sum16BitWords_add_4bytes(sum, b) == sum + U16NE(b, 0) + U16NE(b, 2)
Sum16BitWords_add_16bytes(sum, b) == Sum16BitWords_add_slice(sum, b, 0)

\* Sum16BitWords::ones_complement: folds the carries and inverts
Sum16BitWords_ones_complement(sum) == 65535 - Fold16(sum)

\* u16::to_be on a little-endian target
U16_to_be(x) == (x % 256) * 256 + (x \div 256)

\* fault: payloads up to usize::MAX are accepted
Icmp6Type_calc_checksum_no_limit(t, ip_header, payload) ==
    LET b == Icmp6Type_to_bytes(t)
        msg_len == WideAdd(Payload_len(payload), Icmp6Type_header_len(t))
        s1 == Sum16BitWords_add_16bytes(0, ip_header.source)
        s2 == Sum16BitWords_add_16bytes(s1, ip_header.destination)
        s3 == Sum16BitWords_add_2bytes(s2, <<0, IPV6_ICMP>>)
        s4 == Sum16BitWords_add_2bytes(s3, BE16(msg_len[2]))
        s5 == Sum16BitWords_add_2bytes(s4, <<b[1], b[2]>>)
        s6 == Sum16BitWords_add_4bytes(s5, b[3])
        s7 == Sum16BitWords_add_slice(s6, payload.head, 0)
    IN [kind |-> "Ok",
        v |-> U16_to_be(Sum16BitWords_ones_complement(s7))]

\* Icmp6Type::calc_checksum: the length check, then the sum over source,
\* destination, [0, 58], msg_len as u16, type and code, bytes5to8 and the
\* payload (its zero octets add nothing)
Icmp6Type_calc_checksum(t, ip_header, payload) ==
    LET max_payload_len == WideSub(U32_MAX, Icmp6Type_header_len(t)) IN
    IF WideLess(max_payload_len, Payload_len(payload))
    THEN [kind |-> "Err", err |-> Ipv6PayloadLengthTooLarge(Payload_len(payload))]
    ELSE
      LET b == Icmp6Type_to_bytes(t)
          msg_len == WideAdd(Payload_len(payload), Icmp6Type_header_len(t))
          s1 == Sum16BitWords_add_16bytes(0, ip_header.source)
          s2 == Sum16BitWords_add_16bytes(s1, ip_header.destination)
          s3 == Sum16BitWords_add_2bytes(s2, <<0, IPV6_ICMP>>)
          s4 == Sum16BitWords_add_2bytes(s3, BE16(msg_len[2]))
          s5 == Sum16BitWords_add_2bytes(s4, <<b[1], b[2]>>)
          s6 == Sum16BitWords_add_4bytes(s5, b[3])
          s7 == Sum16BitWords_add_slice(s6, payload.head, 0)
      IN [kind |-> "Ok",
          v |-> U16_to_be(Sum16BitWords_ones_complement(s7))]

\* Icmp6Type::to_header
Icmp6Type_to_header(t, ip_header, payload) ==
    LET c == Icmp6Type_calc_checksum(t, ip_header, payload) IN
    IF c.kind = "Err" THEN c
    ELSE [kind |-> "Ok", header |-> [icmp_type |-> t, checksum |-> c.v]]

\* Icmpv6Header::with_checksum
Icmpv6Header_with_checksum(icmp_type, ip_header, payload) ==
    LET checksum == Icmp6Type_calc_checksum(icmp_type, ip_header, payload) IN
    IF checksum.kind = "Err" THEN checksum
    ELSE [kind |-> "Ok",
          header |-> [icmp_type |-> icmp_type, checksum |-> checksum.v]]

\* fault: every checksum is taken for valid
Icmpv6Header_is_checksum_valid_always(h, ip_header, payload) ==
    LET c == Icmp6Type_calc_checksum(h.icmp_type, ip_header, payload) IN
    IF c.kind = "Err" THEN c
    ELSE [kind |-> "Ok", v |-> TRUE]

\* Icmpv6Header::is_checksum_valid
Icmpv6Header_is_checksum_valid(h, ip_header, payload) ==
    LET c == Icmp6Type_calc_checksum(h.icmp_type, ip_header, payload) IN
    IF c.kind = "Err" THEN c
    ELSE [kind |-> "Ok", v |-> (h.checksum = c.v)]

\* Icmpv6Header::update_checksum: the result and the header afterwards
Icmpv6Header_update_checksum(h, ip_header, payload) ==
    LET c == Icmp6Type_calc_checksum(h.icmp_type, ip_header, payload) IN
    IF c.kind = "Err" THEN [out |-> c, header |-> h]
    ELSE [out |-> [kind |-> "Ok"], header |-> [h EXCEPT !.checksum = c.v]]

(***************************************************************************)
(* Inputs                                                                  *)
(***************************************************************************)
\* how far around each length boundary the generated lengths go
Slack == 1
\* payload octets that follow the headers
MaxPayload == 4

Near(S) == {x \in {b + d : b \in S, d \in (0 - Slack)..Slack} : x >= 0}

\* an octet for positions no parser interprets
Filler(k) == (k * 7 + 3) % 256

\* an IPv4-shaped buffer of n octets: first octet b0, the given total_len,
\* protocol and flags octet, and at the end of the fixed header an
\* authentication header start (next_header ah_next, length octet ah_len)
RawV4(b0, total_len, protocol, flags, ah_next, ah_len, n) ==
    LET hl == IF b0 % 16 >= 5 THEN (b0 % 16) * 4 ELSE Ipv4Header_MIN_LEN IN
    [i \in 1..n |->
        LET k == i - 1 IN
        CASE k = 0 -> b0
          [] k = 2 -> total_len \div 256
          [] k = 3 -> total_len % 256
          [] k = 6 -> flags
          [] k = 7 -> 0
          [] k = 9 -> protocol
          [] k = hl /\ protocol = AUTH -> ah_next
          [] k = hl + 1 /\ protocol = AUTH -> ah_len
          [] OTHER -> Filler(k)]

\* first octets: IHL 5, IHL 6 and the invalid IHL 4
V4FirstOctets == {69, 70, 68}

\* <<protocol, length octet of the authentication header>>
V4Exts == {<<UDP, 0>>, <<AUTH, 0>>, <<AUTH, 1>>, <<AUTH, 2>>}

V4Boundaries(b0, x) ==
    LET hl == IF b0 % 16 >= 5 THEN (b0 % 16) * 4 ELSE Ipv4Header_MIN_LEN
        ext == IF x[1] = AUTH THEN (x[2] + 2) * 4 ELSE 0
    IN {0, Ipv4Header_MIN_LEN, hl, hl + IpAuthHeader_MIN_LEN, hl + ext,
        hl + ext + MaxPayload}

InputsV4 ==
    UNION { UNION { { RawV4(b0, tl, x[1], flags, TCP, x[2], n) :
                        tl \in Near(V4Boundaries(b0, x)),
                        n \in Near(V4Boundaries(b0, x)),
                        flags \in {0, 32} } :
                    x \in V4Exts } :
            b0 \in V4FirstOctets }

\* one extension header on the wire: <<ip number, length octet, octets>>
ExtFrag == <<IPV6_FRAG, 0, Ipv6FragmentHeader_LEN>>
ExtAuth(len) == <<AUTH, len, (len + 2) * 4>>
ExtRaw(ip_number, len) == <<ip_number, len, (len + 1) * 8>>

V6Chains ==
    { <<>>, <<ExtFrag>>, <<ExtAuth(1)>>, <<ExtAuth(0)>>, <<ExtAuth(2)>>,
      <<ExtFrag, ExtAuth(1)>>, <<ExtRaw(IPV6_HOP_BY_HOP, 0)>>,
      <<ExtFrag, ExtFrag>>, <<ExtRaw(IPV6_DEST_OPTIONS, 1), ExtRaw(IPV6_ROUTE, 0)>> }

RECURSIVE ChainLen(_, _)
ChainLen(chain, i) ==
    IF i > Len(chain) THEN 0 ELSE chain[i][3] + ChainLen(chain, i + 1)

ChainNext(chain, i) == IF i > Len(chain) THEN UDP ELSE chain[i][1]

\* the octets of the chain from element i on; every octet after the two
\* leading ones is fill
RECURSIVE ChainBytes(_, _, _)
ChainBytes(chain, i, fill) ==
    IF i > Len(chain) THEN <<>>
    ELSE <<ChainNext(chain, i + 1), chain[i][2]>>
         \o [j \in 1..(chain[i][3] - 2) |-> fill]
         \o ChainBytes(chain, i + 1, fill)

\* an IPv6-shaped buffer of n octets
RawV6(payload_length, chain, fill, n) ==
    LET ext == ChainBytes(chain, 1, fill) IN
    [i \in 1..n |->
        LET k == i - 1 IN
        CASE k = 0 -> 96
          [] k = 4 -> payload_length \div 256
          [] k = 5 -> payload_length % 256
          [] k = 6 -> ChainNext(chain, 1)
          [] k >= Ipv6Header_LEN /\ k < Ipv6Header_LEN + Len(ext) ->
               ext[k - Ipv6Header_LEN + 1]
          [] OTHER -> Filler(k)]

V6LenBoundaries(chain) ==
    {0, Ipv6FragmentHeader_LEN, ChainLen(chain, 1), ChainLen(chain, 1) + MaxPayload}

InputsV6 ==
    UNION { { RawV6(pl, chain, fill, n) :
                pl \in Near(V6LenBoundaries(chain)),
                n \in Near({0} \cup {Ipv6Header_LEN + b : b \in V6LenBoundaries(chain)}),
                fill \in {0, 1} } :
            chain \in V6Chains }

\* buffers of every other version nibble
InputsOther ==
    { [i \in 1..n |-> IF i = 1 THEN v * 16 + 5 ELSE Filler(i - 1)] :
        v \in (0..15) \ {4, 6}, n \in Near({0, Ipv4Header_MIN_LEN, Ipv6Header_LEN}) }

\* version 4 buffers of every IHL below 5
InputsBadIhl ==
    { RawV4(64 + ihl, Ipv4Header_MIN_LEN, UDP, 0, TCP, 0, n) :
        ihl \in 0..4,
        n \in Near({0, Ipv4Header_MIN_LEN, Ipv4Header_MIN_LEN + MaxPayload}) }

Inputs == InputsV4 \cup InputsV6 \cup InputsOther \cup InputsBadIhl

(***************************************************************************)
(* Header values handed to write                                           *)
(***************************************************************************)
AuthHeaders ==
    { [next_header |-> TCP, spi |-> <<258, 772>>, sequence_number |-> <<0, 5>>,
       raw_icv |-> icv] : icv \in {<<>>, <<9, 8, 7, 6>>} }

\* the test generator combine_v4, extended by headers whose protocol does
\* not reference the extension
V4Headers ==
    { LET e == Ipv4Extensions_set_next_headers([auth |-> a], UDP).exts
          h0 == [dscp |-> 0, ecn |-> 1, total_len |-> 0,
                 identification |-> 4660, dont_fragment |-> ~mf,
                 more_fragments |-> mf,
                 fragment_offset |-> IF mf THEN 300 ELSE 0,
                 time_to_live |-> 64, protocol |-> proto,
                 header_checksum |-> 0,
                 source |-> <<192, 168, 0, 1>>,
                 destination |-> <<192, 168, 0, 2>>,
                 options |-> opts]
          h1 == [h0 EXCEPT !.total_len = Ipv4Header_header_len(h0)
                               + Ipv4Extensions_header_len(e) + pl]
      IN Version4([h1 EXCEPT !.header_checksum =
                       Ipv4Header_calc_header_checksum(h1)], e) :
        a \in {None} \cup {Some(x) : x \in AuthHeaders},
        proto \in {UDP, AUTH},
        mf \in BOOLEAN,
        opts \in {<<>>, <<1, 1, 1, 0>>},
        pl \in {0, MaxPayload} }

V6ExtensionSets ==
    { [hop_by_hop_options |-> hbh, destination_options |-> dst,
       routing |-> rt, fragment |-> fr, auth |-> au] :
        hbh \in {None, Some([next_header |-> 0, payload |-> <<1, 4, 0, 0, 0, 0>>])},
        dst \in {None, Some([next_header |-> 0,
                             payload |-> <<1, 12, 0, 0, 0, 0, 0, 0,
                                           0, 0, 0, 0, 0, 0>>])},
        rt \in {None, Some([next_header |-> 0, payload |-> <<0, 0, 0, 0, 0, 0>>])},
        fr \in {None,
                Some([next_header |-> 0, fragment_offset |-> 0,
                      more_fragments |-> TRUE, identification |-> <<57005, 48879>>]),
                Some([next_header |-> 0, fragment_offset |-> 0,
                      more_fragments |-> FALSE, identification |-> <<0, 1>>])},
        au \in {None} \cup {Some(x) : x \in AuthHeaders} }

\* the test generator combine_v6, extended by headers whose next_header
\* does not reference the extensions
V6Headers ==
    { LET s == Ipv6Extensions_set_next_headers(e, UDP) IN
      Version6([traffic_class |-> 18, flow_label |-> 74565,
                payload_length |-> Ipv6Extensions_header_len(e) + pl,
                next_header |-> IF linked THEN s.first ELSE UDP,
                hop_limit |-> 64,
                source |-> [i \in 1..16 |-> IF i = 16 THEN 1 ELSE 0],
                destination |-> [i \in 1..16 |-> IF i = 16 THEN 2 ELSE 0]],
               s.exts) :
        e \in V6ExtensionSets, linked \in BOOLEAN, pl \in {0, MaxPayload} }

Headers == V4Headers \cup V6Headers

\* payload lengths handed to set_payload_len of h: small ones, the ones
\* around the largest that fits, and the ones around usize::MAX
PayloadLens(h) ==
    LET ext == IF h.version = 4 THEN Ipv4Extensions_header_len(h.exts)
               ELSE Ipv6Extensions_header_len(h.exts)
        fixed == IF h.version = 4 THEN Ipv4Header_header_len(h.header) ELSE 0
    IN {USize(n) : n \in Near({0, MaxPayload, U16_MAX - fixed - ext, U16_MAX})}
       \cup {USizeMaxMinus(d) : d \in Near({0, ext})}

\* values handed to set_next_headers
LastNextHeaders == {TCP, UDP, AUTH}

\* ICMPv6 buffers: how many payload octets follow the 8-octet header
Icmpv6MaxPayload == 2

\* type octets: every recognised type, its neighbours and the extremes
Icmpv6Types ==
    {0, TYPE_DST_UNREACH, TYPE_PACKET_TOO_BIG, TYPE_TIME_EXCEEDED,
     TYPE_PARAM_PROB, 5, 127, TYPE_ECHO_REQUEST, TYPE_ECHO_REPLY, 130, 255}

\* code octets: every recognised code, the first unknown one and the extreme
Icmpv6Codes == 0..7 \cup {255}

Icmpv6Checksums == {<<0, 0>>, <<18, 52>>, <<255, 254>>}

Icmpv6Bytes5to8 == {<<0, 0, 0, 0>>, <<18, 52, 0, 1>>, <<255, 255, 255, 254>>}

\* a message of every length from empty to header plus payload
Icmpv6Inputs ==
    { SubSeq(<<t, c>> \o k \o b \o [i \in 1..Icmpv6MaxPayload |-> Filler(i)], 1, n) :
        t \in Icmpv6Types, c \in Icmpv6Codes, k \in Icmpv6Checksums,
        b \in Icmpv6Bytes5to8,
        n \in 0..(Icmpv6Header_MIN_SERIALIZED_SIZE + Icmpv6MaxPayload) }

\* Icmp6Type values a caller can build, the ones no decoding produces
\* included (a Raw with a recognised type, a Raw code with a named value)
Icmp6Types ==
    {[name |-> "Raw", icmp_type |-> t, icmp_code |-> c, bytes5to8 |-> b] :
        t \in {0, TYPE_DST_UNREACH, 130}, c \in {0, 9}, b \in Icmpv6Bytes5to8}
    \cup {[name |-> "DestinationUnreachable", header |-> [name |-> n]] :
            n \in {"NoRoute", "Prohibited", "BeyondScope", "Address", "Port",
                   "SourceAddressFailedPolicy", "RejectRoute"}}
    \cup {[name |-> "DestinationUnreachable",
           header |-> [name |-> "Raw", code |-> c, bytes5to8 |-> b]] :
            c \in {CODE_DST_UNREACH_ADDR, 7}, b \in Icmpv6Bytes5to8}
    \cup {[name |-> "PacketTooBig", mtu |-> x] : x \in {<<0, 1280>>, <<65535, 65534>>}}
    \cup {[name |-> "TimeExceeded", code |-> [name |-> n]] :
            n \in {"HopLimitExceeded", "FragmentReassemblyTimeExceeded"}}
    \cup {[name |-> "TimeExceeded", code |-> [name |-> "Raw", code |-> c]] :
            c \in {CODE_TIME_EXCEEDED_HOP_LIMIT_EXCEEDED, 2}}
    \cup {[name |-> "ParameterProblem", code |-> [name |-> "Raw", code |-> c],
           pointer |-> x] : c \in {0, 3}, x \in {<<0, 40>>, <<65535, 65534>>}}
    \cup {[name |-> n, echo |-> [id |-> i, seq |-> q]] :
            n \in {"EchoRequest", "EchoReply"}, i \in {0, 4660}, q \in {1, 65535}}

\* Icmpv6Header values: a type and any checksum field
Icmpv6Headers ==
    {[icmp_type |-> t, checksum |-> k] : t \in Icmp6Types, k \in {0, 4660, 65534}}

\* IPv6 headers handed to the checksum operations; only the addresses
\* enter the sum
Icmpv6IpHeaders ==
    {[traffic_class |-> 0, flow_label |-> 0, payload_length |-> 0,
      next_header |-> IPV6_ICMP, hop_limit |-> 64,
      source |-> [i \in 1..16 |-> IF i = 16 THEN 1 ELSE 0],
      destination |-> [i \in 1..16 |-> IF i = 16 THEN 1 ELSE 0]],
     [traffic_class |-> 0, flow_label |-> 0, payload_length |-> 0,
      next_header |-> IPV6_ICMP, hop_limit |-> 64,
      source |-> [i \in 1..16 |-> 255],
      destination |-> [i \in 1..16 |-> IF i % 2 = 1 THEN 254 ELSE 128]]}

\* payload lengths around the boundaries: where payload.len() + 8 passes
\* 2^16, where it passes 2^32 - 1, and 2^32 itself
Icmpv6PayloadLens ==
    {WideAdd(WideSub(b, 8 + Slack), d) :
        b \in {Wide(65536), U32_MAX}, d \in 0..(2 * Slack)}
    \cup {WideAdd(U32_MAX, 1)}

\* payloads: short ones octet by octet, long ones as a few octets and
\* a run of zero octets
Icmpv6Payloads ==
    {[head |-> h, zeros |-> Wide(0)] :
        h \in {<<>>, <<97>>, <<97, 98, 99, 100>>, <<255, 255, 255>>}}
    \cup {[head |-> h, zeros |-> WideSub(n, Len(h))] :
            h \in {<<>>, <<97, 98>>}, n \in Icmpv6PayloadLens}

\* pl with one bit of one of its head octets flipped
FlipBit(x, k) == IF (x \div (2 ^ k)) % 2 = 1 THEN x - 2 ^ k ELSE x + 2 ^ k
BitFlips(pl) ==
    {[pl EXCEPT !.head[i] = FlipBit(pl.head[i], k)] :
        i \in 1..Len(pl.head), k \in 0..7}

(***************************************************************************)
(* State machine                                                           *)
(***************************************************************************)
NoMem == [windows |-> {}, reads |-> {}]
NoRes == [kind |-> "None"]
NoCall == [kind |-> "None"]

Init ==
    /\ op = "init"
    /\ res = NoRes
    /\ mem = NoMem
    /\ call = NoCall
    /\ \/ hdr = None /\ buf \in Inputs
       \/ hdr \in {Some(h) : h \in Headers} /\ buf = <<>>

\* header.write(&mut buffer) on an empty Vec
Write ==
    /\ op = "init"
    /\ hdr.some
    /\ LET r == write(hdr.v) IN
       /\ buf' = buf \o r.sink
       /\ res' = r.out
    /\ op' = "write"
    /\ mem' = NoMem
    /\ UNCHANGED <<hdr, call>>

\* buffer.extend_from_slice(payload): the caller appends n payload octets
AppendPayload ==
    /\ op = "write"
    /\ res.kind = "Ok"
    /\ \E n \in 1..(MaxPayload + 1) :
         buf' = buf \o [i \in 1..n |-> Filler(Len(buf) + i - 1)]
    /\ op' = "payload"
    /\ UNCHANGED <<hdr, res, mem, call>>

CanParse == op \in {"init", "write", "payload"}

FromSlice ==
    /\ CanParse
    /\ LET r == from_slice(buf) IN
       /\ res' = r.out
       /\ mem' = [windows |-> r.windows, reads |-> r.reads]
    /\ op' = "from_slice"
    /\ UNCHANGED <<buf, hdr, call>>

Ipv4FromSlice ==
    /\ CanParse
    /\ LET r == ipv4_from_slice(buf) IN
       /\ res' = r.out
       /\ mem' = [windows |-> r.windows, reads |-> r.reads]
    /\ op' = "ipv4_from_slice"
    /\ UNCHANGED <<buf, hdr, call>>

Ipv6FromSlice ==
    /\ CanParse
    /\ LET r == ipv6_from_slice(buf) IN
       /\ res' = r.out
       /\ mem' = [windows |-> r.windows, reads |-> r.reads]
    /\ op' = "ipv6_from_slice"
    /\ UNCHANGED <<buf, hdr, call>>

\* IpHeader::read over a cursor holding buf
Read ==
    /\ CanParse
    /\ res' = read(buf)
    /\ mem' = NoMem
    /\ op' = "read"
    /\ UNCHANGED <<buf, hdr, call>>

\* header.set_payload_len(n) on a header value
SetPayloadLen ==
    /\ op = "init"
    /\ hdr.some
    /\ \E n \in PayloadLens(hdr.v) :
         LET r == set_payload_len(hdr.v, n) IN
         /\ hdr' = Some(r.header)
         /\ res' = r.out
         /\ call' = [kind |-> "set_payload_len", self |-> hdr.v, arg |-> n]
    /\ op' = "set_payload_len"
    /\ UNCHANGED <<buf, mem>>

\* header.set_next_headers(x) on a header value
SetNextHeaders ==
    /\ op = "init"
    /\ hdr.some
    /\ \E x \in LastNextHeaders :
         LET r == set_next_headers(hdr.v, x) IN
         /\ hdr' = Some(r.header)
         /\ res' = [kind |-> "U16", v |-> r.out]
         /\ call' = [kind |-> "set_next_headers", self |-> hdr.v, arg |-> x]
    /\ op' = "set_next_headers"
    /\ UNCHANGED <<buf, mem>>

\* header.next_header() on a header value, as built or after
\* set_next_headers
NextHeader ==
    /\ op \in {"init", "set_next_headers"}
    /\ hdr.some
    /\ res' = next_header(hdr.v)
    /\ op' = "next_header"
    /\ UNCHANGED <<buf, hdr, mem, call>>

Next ==
    \/ Write
    \/ AppendPayload
    \/ FromSlice
    \/ Ipv4FromSlice
    \/ Ipv6FromSlice
    \/ Read
    \/ SetPayloadLen
    \/ SetNextHeaders
    \/ NextHeader

Spec == Init /\ [][Next]_vars

(***************************************************************************)
(* State machine of a caller of Icmpv6Header                               *)
(***************************************************************************)
Icmpv6Init ==
    /\ op = "init"
    /\ res = NoRes
    /\ mem = NoMem
    /\ call = NoCall
    /\ \/ hdr = None /\ buf \in Icmpv6Inputs
       \/ hdr \in {Some(h) : h \in Icmpv6Headers} /\ buf = <<>>

\* Icmpv6Header::from_slice(&buf)
Icmpv6FromSlice ==
    /\ op = "init"
    /\ ~hdr.some
    /\ res' = Icmpv6Header_from_slice(buf)
    /\ op' = "icmpv6_from_slice"
    /\ UNCHANGED <<buf, hdr, mem, call>>

\* the header a caller holds: the one it built, or the one a successful
\* from_slice returned
Icmpv6Held ==
    IF op = "init" /\ hdr.some THEN hdr
    ELSE IF op = "icmpv6_from_slice" /\ res.kind = "Ok" THEN Some(res.header)
    ELSE None

\* header.to_bytes()
Icmpv6ToBytes ==
    /\ Icmpv6Held.some
    /\ call' = [kind |-> "to_bytes", self |-> Icmpv6Held.v]
    /\ res' = [kind |-> "Bytes", v |-> Icmpv6Header_to_bytes(Icmpv6Held.v)]
    /\ op' = "icmpv6_to_bytes"
    /\ UNCHANGED <<buf, hdr, mem>>

\* t.calc_checksum(&ip_header, &payload)
Icmpv6CalcChecksum ==
    /\ op = "init"
    /\ hdr.some
    /\ \E ip \in Icmpv6IpHeaders, pl \in Icmpv6Payloads :
          /\ call' = [kind |-> "calc_checksum", self |-> hdr.v,
                      ip_header |-> ip, payload |-> pl]
          /\ res' = Icmp6Type_calc_checksum(hdr.v.icmp_type, ip, pl)
    /\ op' = "calc_checksum"
    /\ UNCHANGED <<buf, hdr, mem>>

\* t.to_header(&ip_header, &payload)
Icmpv6ToHeader ==
    /\ op = "init"
    /\ hdr.some
    /\ \E ip \in Icmpv6IpHeaders, pl \in Icmpv6Payloads :
          /\ call' = [kind |-> "to_header", self |-> hdr.v,
                      ip_header |-> ip, payload |-> pl]
          /\ res' = Icmp6Type_to_header(hdr.v.icmp_type, ip, pl)
    /\ op' = "to_header"
    /\ UNCHANGED <<buf, hdr, mem>>

\* Icmpv6Header::with_checksum(t, &ip_header, &payload)
Icmpv6WithChecksum ==
    /\ op = "init"
    /\ hdr.some
    /\ \E ip \in Icmpv6IpHeaders, pl \in Icmpv6Payloads :
          /\ call' = [kind |-> "with_checksum", self |-> hdr.v,
                      ip_header |-> ip, payload |-> pl]
          /\ res' = Icmpv6Header_with_checksum(hdr.v.icmp_type, ip, pl)
    /\ op' = "with_checksum"
    /\ UNCHANGED <<buf, hdr, mem>>

\* header.update_checksum(&ip_header, &payload)
Icmpv6UpdateChecksum ==
    /\ op = "init"
    /\ hdr.some
    /\ \E ip \in Icmpv6IpHeaders, pl \in Icmpv6Payloads :
          LET r == Icmpv6Header_update_checksum(hdr.v, ip, pl) IN
          /\ call' = [kind |-> "update_checksum", self |-> hdr.v,
                      ip_header |-> ip, payload |-> pl]
          /\ res' = r.out
          /\ hdr' = Some(r.header)
    /\ op' = "update_checksum"
    /\ UNCHANGED <<buf, mem>>

\* header.is_checksum_valid(&ip_header, &payload) on a header as built,
\* or on the header with_checksum or update_checksum produced, then with
\* the same IPv6 header and the same payload or one that differs in one bit
Icmpv6IsChecksumValid ==
    /\ \/ /\ op = "init"
          /\ hdr.some
          /\ \E ip \in Icmpv6IpHeaders, pl \in Icmpv6Payloads :
                /\ call' = [kind |-> "is_checksum_valid", self |-> hdr.v,
                            ip_header |-> ip, payload |-> pl, after |-> call]
                /\ res' = Icmpv6Header_is_checksum_valid(hdr.v, ip, pl)
       \/ /\ op \in {"with_checksum", "update_checksum"}
          /\ res.kind = "Ok"
          /\ LET h == IF op = "with_checksum" THEN res.header ELSE hdr.v IN
             \E pl \in {call.payload} \cup BitFlips(call.payload) :
                /\ call' = [kind |-> "is_checksum_valid", self |-> h,
                            ip_header |-> call.ip_header, payload |-> pl,
                            after |-> call]
                /\ res' = Icmpv6Header_is_checksum_valid(h, call.ip_header, pl)
    /\ op' = "is_checksum_valid"
    /\ UNCHANGED <<buf, hdr, mem>>

\* Icmpv6HeaderSlice::from_slice(&buf) and, on the view it returns, every
\* accessor and to_header
Icmpv6SliceAccessors ==
    /\ op = "init"
    /\ ~hdr.some
    /\ LET s == Icmpv6HeaderSlice_from_slice(buf) IN
       res' = IF s.kind = "Err" THEN s.err
              ELSE [kind |-> "Slice",
                    type_value |-> Icmpv6HeaderSlice_type_value(s.slice),
                    code_value |-> Icmpv6HeaderSlice_code_value(s.slice),
                    checksum |-> Icmpv6HeaderSlice_checksum(s.slice),
                    bytes5to8 |-> Icmpv6HeaderSlice_bytes5to8(s.slice),
                    slice |-> Icmpv6HeaderSlice_slice(s.slice),
                    header |-> Icmpv6HeaderSlice_to_header(s.slice)]
    /\ op' = "icmpv6_slice"
    /\ UNCHANGED <<buf, hdr, mem, call>>

\* Icmpv6Header::from_slice(&bytes) on the octets to_bytes returned
Icmpv6FromSliceAgain ==
    /\ op = "icmpv6_to_bytes"
    /\ call' = [kind |-> "from_slice", self |-> call.self, slice |-> res.v]
    /\ res' = Icmpv6Header_from_slice(res.v)
    /\ op' = "icmpv6_from_slice_again"
    /\ UNCHANGED <<buf, hdr, mem>>

Icmpv6Next ==
    \/ Icmpv6FromSlice
    \/ Icmpv6FromSliceAgain
    \/ Icmpv6SliceAccessors
    \/ Icmpv6ToBytes
    \/ Icmpv6CalcChecksum
    \/ Icmpv6ToHeader
    \/ Icmpv6WithChecksum
    \/ Icmpv6UpdateChecksum
    \/ Icmpv6IsChecksumValid

Icmpv6Spec == Icmpv6Init /\ [][Icmpv6Next]_vars

(***************************************************************************)
(* The octets of buf as the wire formats lay them out                      *)
(***************************************************************************)
WireVersion == At(buf, 0) \div 16
WireIhl == At(buf, 0) % 16
WireTotalLen == U16BE(buf, 2)
WirePayloadLength == U16BE(buf, 4)

SliceOps == {"from_slice", "ipv4_from_slice", "ipv6_from_slice"}

\* where the IPv4 extension chain of buf ends and the number it ends in
WireChainV4 ==
    IF At(buf, 9) = AUTH
    THEN [end |-> WireIhl * 4 + (At(buf, WireIhl * 4 + 1) + 2) * 4,
          terminal |-> At(buf, WireIhl * 4)]
    ELSE [end |-> WireIhl * 4, terminal |-> At(buf, 9)]

\* where the IPv6 extension chain that starts at off with number nh ends
\* and the number it ends in
RECURSIVE WireChainV6(_, _)
WireChainV6(off, nh) ==
    IF nh \notin Ipv6ExtNumbers THEN [end |-> off, terminal |-> nh]
    ELSE LET len == CASE nh = AUTH -> (At(buf, off + 1) + 2) * 4
                      [] nh = IPV6_FRAG -> 8
                      [] OTHER -> (At(buf, off + 1) + 1) * 8
         IN WireChainV6(off + len, At(buf, off))

(***************************************************************************)
(* Properties                                                              *)
(***************************************************************************)
\* C1: every window built by from_slice, ipv4_from_slice and
\* ipv6_from_slice lies inside the input buffer (off + len <= buf.len, len
\* not negative) and every unchecked single-octet read is at an index
\* below buf.len, whatever the buffer holds.
C1_SliceSafe ==
    op \in SliceOps =>
        /\ \A w \in mem.windows :
             w[1] >= 0 /\ w[2] >= 0 /\ w[1] + w[2] <= Len(buf)
        /\ \A i \in mem.reads : i >= 0 /\ i < Len(buf)

\* a successful IPv4 parse with header, rest and payload windows whose
\* payload window ends exactly where the buffer ends
C1_Witness ==
    /\ op = "from_slice"
    /\ res.kind = "Ok"
    /\ mem.reads = {0}
    /\ Cardinality(mem.windows) = 3
    /\ res.header.exts.auth.some
    /\ res.payload.off + res.payload.len = Len(buf)

\* C2: on success of from_slice the payload is bounded by the declared
\* length, not by the buffer: IPv4 payload is buf[IHL*4 + extensions ..
\* total_len] with source Ipv4HeaderTotalLen, IPv6 payload (payload_length
\* not zero) is buf[40 + extensions .. 40 + payload_length] with source
\* Ipv6HeaderPayloadLen; ip_number is where the next-header chain ends and
\* fragmented is the header's is_fragmenting_payload().
C2_PayloadBoundedByDeclaredLen ==
    (op = "from_slice" /\ res.kind = "Ok") =>
        /\ WireVersion = 4 =>
             /\ res.payload.off = WireChainV4.end
             /\ res.payload.off + res.payload.len = WireTotalLen
             /\ res.payload.len >= 0
             /\ res.payload.len_source = "Ipv4HeaderTotalLen"
             /\ res.payload.ip_number = WireChainV4.terminal
        /\ (WireVersion = 6 /\ WirePayloadLength # 0) =>
             LET c == WireChainV6(40, At(buf, 6)) IN
             /\ res.payload.off = c.end
             /\ res.payload.off + res.payload.len = 40 + WirePayloadLength
             /\ res.payload.len >= 0
             /\ res.payload.len_source = "Ipv6HeaderPayloadLen"
             /\ res.payload.ip_number = c.terminal
        /\ res.payload.fragmented = is_fragmenting_payload(res.header)

\* an IPv6 packet with a fragment header parsed from a buffer that holds
\* octets past the declared length
C2_Witness ==
    /\ op = "from_slice"
    /\ res.kind = "Ok"
    /\ WireVersion = 6
    /\ WirePayloadLength # 0
    /\ res.header.exts.fragment.some
    /\ res.payload.len > 0
    /\ Len(buf) > 40 + WirePayloadLength

\* the chain of next_header values of h is consistent and ends in a number
\* that is no extension
WellFormed(h) ==
    LET n == next_header(h) IN
    /\ n.kind = "Ok"
    /\ n.v \notin (IF h.version = 4 THEN {AUTH} ELSE Ipv6ExtNumbers)

\* the packet length the length field of h declares
DeclaredLen(h) ==
    IF h.version = 4 THEN h.header.total_len
    ELSE Ipv6Header_LEN + h.header.payload_length

\* C3: for a well-formed header (consistent next_header chain, length
\* field = extensions + payload) write followed by from_slice on the
\* written octets and the declared payload returns a header equal to the
\* original and a payload of the declared length, empty when none was
\* declared.
C3_WriteFromSliceRoundTrip ==
    (/\ op = "from_slice"
     /\ hdr.some
     /\ WellFormed(hdr.v)
     /\ Len(buf) = DeclaredLen(hdr.v)) =>
        /\ res.kind = "Ok"
        /\ res.header = hdr.v
        /\ res.payload.off = header_len(hdr.v)
        /\ res.payload.len = DeclaredLen(hdr.v) - header_len(hdr.v)
        /\ (DeclaredLen(hdr.v) = header_len(hdr.v) => res.payload.len = 0)

\* an IPv6 header with all five extensions and no payload, written and
\* parsed back
C3_Witness ==
    /\ op = "from_slice"
    /\ hdr.some
    /\ hdr.v.version = 6
    /\ WellFormed(hdr.v)
    /\ hdr.v.exts.hop_by_hop_options.some
    /\ hdr.v.exts.routing.some
    /\ hdr.v.exts.fragment.some
    /\ hdr.v.exts.destination_options.some
    /\ hdr.v.exts.auth.some
    /\ Len(buf) = DeclaredLen(hdr.v)
    /\ Len(buf) = header_len(hdr.v)
    /\ res.kind = "Ok"

\* C4: whenever from_slice succeeds on the octets, read over a stream of
\* the same octets succeeds with the same header and the ip number of
\* from_slice's payload (IPv6 with payload_length zero followed by
\* extension headers included).
C4_ReadAgreesWithFromSlice ==
    op = "read" =>
        LET s == from_slice(buf).out IN
        s.kind = "Ok" =>
            /\ res.kind = "Ok"
            /\ res.header = s.header
            /\ res.ip_number = s.payload.ip_number

\* C5: from_slice and ipv6_from_slice on an IPv6 buffer of more than 40
\* octets with payload_length zero never fail because of the zero: the
\* extension walk gets the whole remainder buf[40..], a length error is a
\* shortage of the buffer itself, and on success the payload ends where
\* the buffer ends with source Slice.
C5_JumbogramFallback ==
    (/\ op \in {"from_slice", "ipv6_from_slice"}
     /\ WireVersion = 6
     /\ Len(buf) > 40
     /\ WirePayloadLength = 0) =>
        /\ <<40, Len(buf) - 40>> \in mem.windows
        /\ res.kind \in {"Ok", "Len", "Content", "Exts"}
        /\ res.kind = "Len" =>
             /\ res.err.layer # "Ipv6Packet"
             /\ res.err.len_source = "Slice"
             /\ res.err.layer_start_offset + res.err.len = Len(buf)
             /\ res.err.required_len > res.err.len
        /\ res.kind = "Ok" =>
             /\ res.payload.len_source = "Slice"
             /\ res.payload.off + res.payload.len = Len(buf)

\* payload_length zero, a fragment header and payload octets after it
C5_Witness ==
    /\ op = "ipv6_from_slice"
    /\ WireVersion = 6
    /\ WirePayloadLength = 0
    /\ res.kind = "Ok"
    /\ res.header.exts.fragment.some
    /\ res.payload.len > 0
    /\ res.payload.len_source = "Slice"

\* C6: an IPv4 header whose total_len is below IHL*4 makes from_slice,
\* ipv4_from_slice and read fail with LenError{IHL*4, total_len,
\* Ipv4HeaderTotalLen, Ipv4Packet, 0} before any extension is looked at.
C6_TotalLenBelowHeaderLen ==
    (/\ op \in {"from_slice", "ipv4_from_slice", "read"}
     /\ WireVersion = 4
     /\ WireIhl >= 5
     /\ Len(buf) >= WireIhl * 4
     /\ WireTotalLen < WireIhl * 4) =>
        /\ res = ErrLen(LenError(WireIhl * 4, WireTotalLen,
                                 "Ipv4HeaderTotalLen", "Ipv4Packet", 0))
        /\ mem.windows \subseteq {<<0, WireIhl * 4>>}

\* read of a header that names an authentication header whose length octet
\* is zero, behind a total_len below the header length
C6_Witness ==
    /\ op = "read"
    /\ WireVersion = 4
    /\ WireIhl = 6
    /\ Len(buf) >= 24 + 12
    /\ WireTotalLen < 24
    /\ At(buf, 9) = AUTH
    /\ At(buf, 25) = 0
    /\ res.kind = "Len"

\* C7: an IPv4 buffer that holds the fixed header (IHL >= 5, total_len >=
\* IHL*4, buf.len >= IHL*4) but fewer octets than total_len makes
\* from_slice and ipv4_from_slice fail with LenError{total_len, buf.len,
\* Slice, Ipv4Packet, 0}.
C7_SliceBelowTotalLen ==
    (/\ op \in {"from_slice", "ipv4_from_slice"}
     /\ WireVersion = 4
     /\ WireIhl >= 5
     /\ WireTotalLen >= WireIhl * 4
     /\ Len(buf) >= WireIhl * 4
     /\ Len(buf) < WireTotalLen) =>
        res = ErrLen(LenError(WireTotalLen, Len(buf), "Slice", "Ipv4Packet", 0))

\* ipv4_from_slice of a header with options cut inside its payload
C7_Witness ==
    /\ op = "ipv4_from_slice"
    /\ WireVersion = 4
    /\ WireIhl = 6
    /\ Len(buf) > 24
    /\ Len(buf) < WireTotalLen
    /\ res.kind = "Len"

\* C8: an IPv6 buffer of at least 40 octets whose payload_length exceeds
\* buf.len - 40 makes from_slice and ipv6_from_slice fail with
\* LenError{40 + payload_length, buf.len, Slice, Ipv6Packet, 0}.
C8_SliceBelowPayloadLength ==
    (/\ op \in {"from_slice", "ipv6_from_slice"}
     /\ WireVersion = 6
     /\ Len(buf) >= 40
     /\ WirePayloadLength > Len(buf) - 40) =>
        res = ErrLen(LenError(40 + WirePayloadLength, Len(buf), "Slice",
                              "Ipv6Packet", 0))

\* ipv6_from_slice of a buffer cut inside the extension chain
C8_Witness ==
    /\ op = "ipv6_from_slice"
    /\ WireVersion = 6
    /\ At(buf, 6) = IPV6_FRAG
    /\ Len(buf) > 40
    /\ WirePayloadLength > Len(buf) - 40
    /\ res.kind = "Len"

\* C9: the fixed-header length errors of from_slice, all with len =
\* buf.len, source Slice and offset 0: empty buffer -> required 1, layer
\* IpHeader; version 4 with fewer than 20 octets -> required 20, layer
\* Ipv4Header, even when the IHL is below 5; version 4 with 20 <= buf.len
\* < IHL*4 -> required IHL*4, layer Ipv4Header; version 6 with fewer than
\* 40 octets -> required 40, layer Ipv6Header.
C9_FixedHeaderLenErrors ==
    op = "from_slice" =>
        /\ Len(buf) = 0 =>
             res = ErrLen(LenError(1, 0, "Slice", "IpHeader", 0))
        /\ (Len(buf) >= 1 /\ WireVersion = 4 /\ Len(buf) < 20) =>
             res = ErrLen(LenError(20, Len(buf), "Slice", "Ipv4Header", 0))
        /\ (WireVersion = 4 /\ Len(buf) >= 20 /\ Len(buf) < WireIhl * 4) =>
             res = ErrLen(LenError(WireIhl * 4, Len(buf), "Slice",
                                   "Ipv4Header", 0))
        /\ (Len(buf) >= 1 /\ WireVersion = 6 /\ Len(buf) < 40) =>
             res = ErrLen(LenError(40, Len(buf), "Slice", "Ipv6Header", 0))

\* fewer than 20 octets of a version 4 header whose IHL is 4
C9_Witness ==
    /\ op = "from_slice"
    /\ WireVersion = 4
    /\ WireIhl < 5
    /\ Len(buf) >= 1
    /\ Len(buf) < 20
    /\ res.kind = "Len"

\* C10: a first octet whose version nibble v is neither 4 nor 6 makes
\* from_slice (any non-empty buffer) and read fail with the content error
\* UnsupportedIpVersion{version_number = v}.
C10_UnsupportedIpVersion ==
    (/\ op \in {"from_slice", "read"}
     /\ Len(buf) >= 1
     /\ WireVersion \notin {4, 6}) =>
        res = ErrContent([name |-> "UnsupportedIpVersion",
                          version_number |-> WireVersion])

\* from_slice of a single octet of version 15
C10_Witness ==
    /\ op = "from_slice"
    /\ Len(buf) = 1
    /\ WireVersion = 15
    /\ res.kind = "Content"

\* C11: from_slice on a version 4 buffer of at least 20 octets whose IHL
\* is in 0..4 fails with the content error
\* Ipv4HeaderLengthSmallerThanHeader{ihl}; read fails with the same error
\* for every version 4 first octet with an IHL below 5.
C11_BadIhl ==
    /\ (/\ op = "from_slice"
        /\ WireVersion = 4
        /\ Len(buf) >= 20
        /\ WireIhl < 5) =>
           res = ErrContent([name |-> "Ipv4HeaderLengthSmallerThanHeader",
                             ihl |-> WireIhl])
    /\ (/\ op = "read"
        /\ Len(buf) >= 1
        /\ WireVersion = 4
        /\ WireIhl < 5) =>
           res = ErrContent([name |-> "Ipv4HeaderLengthSmallerThanHeader",
                             ihl |-> WireIhl])

\* from_slice of exactly 20 octets whose first octet is 0x44
C11_Witness ==
    /\ op = "from_slice"
    /\ Len(buf) = 20
    /\ At(buf, 0) = 68
    /\ res.kind = "Content"

\* the fixed header and length checks of the IPv4 path pass on buf
WireV4Ok ==
    /\ WireVersion = 4
    /\ WireIhl >= 5
    /\ Len(buf) >= WireIhl * 4
    /\ WireTotalLen >= WireIhl * 4
    /\ Len(buf) >= WireTotalLen

\* what the IPv4 extension walker says about the octets between the fixed
\* header and total_len
WireV4Walk ==
    Ipv4Extensions_from_slice(At(buf, 9),
                              SubSeq(buf, WireIhl * 4 + 1, WireTotalLen))

WireV6Fallback == WirePayloadLength = 0 /\ Len(buf) > 40

\* the fixed header and length checks of the IPv6 path pass on buf
WireV6Ok ==
    /\ WireVersion = 6
    /\ Len(buf) >= 40
    /\ (WireV6Fallback \/ Len(buf) >= 40 + WirePayloadLength)

\* what the IPv6 extension walker says about the octets after the fixed
\* header, up to payload_length or in the fallback up to the buffer end
WireV6Walk ==
    Ipv6Extensions_from_slice(At(buf, 6),
        SubSeq(buf, 41, IF WireV6Fallback THEN Len(buf)
                        ELSE 40 + WirePayloadLength))

\* the walker's length error e as the IP layer hands it on
Rewritten(e, off, len_source) ==
    ErrLen(LenError(e.required_len, e.len, len_source, e.layer,
                    e.layer_start_offset + off))

\* C12: a length error of the extension walker comes back from from_slice,
\* ipv4_from_slice and ipv6_from_slice with layer_start_offset increased
\* by the fixed header length (IHL*4, 40) and len_source replaced by
\* Ipv4HeaderTotalLen, respectively by the source of the IPv6 window
\* (Ipv6HeaderPayloadLen, Slice in the fallback); required_len, len and
\* layer are unchanged.
C12_NestedLenErrorRewritten ==
    /\ (/\ op \in {"from_slice", "ipv4_from_slice"}
        /\ WireV4Ok
        /\ WireV4Walk.kind = "Len") =>
           res = Rewritten(WireV4Walk.err, WireIhl * 4, "Ipv4HeaderTotalLen")
    /\ (/\ op \in {"from_slice", "ipv6_from_slice"}
        /\ WireV6Ok
        /\ WireV6Walk.kind = "Len") =>
           res = Rewritten(WireV6Walk.err, 40,
                           IF WireV6Fallback THEN "Slice"
                           ELSE "Ipv6HeaderPayloadLen")

\* an authentication header cut short behind a fragment header, inside
\* the payload_length of an IPv6 packet
C12_Witness ==
    /\ op = "from_slice"
    /\ WireV6Ok
    /\ ~WireV6Fallback
    /\ WireV6Walk.kind = "Len"
    /\ WireV6Walk.err.layer_start_offset = 8
    /\ res.kind = "Len"
    /\ res.err.layer = "IpAuthHeader"

\* C13: on a buffer whose version nibble is 4, ipv4_from_slice returns
\* the same header and payload on success and the same LenError on a
\* length failure as from_slice; on a buffer whose version nibble is 6,
\* ipv6_from_slice does.
C13_VersionEntryPointsAgree ==
    (/\ Len(buf) >= 1
     /\ \/ op = "ipv4_from_slice" /\ WireVersion = 4
        \/ op = "ipv6_from_slice" /\ WireVersion = 6) =>
        LET s == from_slice(buf).out IN
        /\ s.kind \in {"Ok", "Len"} => res = s
        /\ res.kind \in {"Ok", "Len"} => res = s

\* ipv4_from_slice of a packet with an authentication header whose
\* payload ends where the buffer ends
C13_Witness ==
    /\ op = "ipv4_from_slice"
    /\ WireVersion = 4
    /\ res.kind = "Ok"
    /\ res.header.exts.auth.some
    /\ res.payload.len > 0
    /\ res.payload.off + res.payload.len = Len(buf)

\* the length field of h set to v, everything else as it is
WithLengthField(h, v) ==
    IF h.version = 4 THEN [h EXCEPT !.header.total_len = v]
    ELSE [h EXCEPT !.header.payload_length = v]

\* C14: set_payload_len(n) succeeds when n plus the length of the
\* extensions (plus the fixed header length for IPv4) fits in 16 bits, and
\* then total_len = header_len + extensions + n (IPv4), payload_length =
\* extensions + n (IPv6) with every other field unchanged; otherwise, also
\* when n + extensions overflows usize, it returns a ValueTooBigError and
\* leaves the header unchanged.
C14_SetPayloadLen ==
    op = "set_payload_len" =>
        LET h == call.self
            n == call.arg
            \* what the length field counts besides the payload
            base == IF h.version = 4 THEN header_len(h)
                    ELSE header_len(h) - 40
        IN IF ~n.max_minus /\ base + n.v <= 65535
           THEN /\ res = [kind |-> "Ok"]
                /\ hdr = Some(WithLengthField(h, base + n.v))
           ELSE /\ res.kind = "ValueTooBig"
                /\ hdr = Some(h)

\* an IPv4 header with options and an authentication header given the
\* largest payload length that fits
C14_Witness ==
    /\ op = "set_payload_len"
    /\ call.self.version = 4
    /\ call.self.exts.auth.some
    /\ header_len(call.self) > 32
    /\ ~call.arg.max_minus
    /\ header_len(call.self) + call.arg.v = 65535
    /\ res.kind = "Ok"
    /\ hdr.v.header.total_len = 65535

\* C15: after set_next_headers(x), next_header() returns Ok(x); an IPv4
\* header with an authentication header has protocol AUTH (51) and the
\* authentication header's next_header x, one without extension has
\* protocol x.
C15_SetNextHeaders ==
    /\ op = "set_next_headers" =>
         /\ next_header(hdr.v) = [kind |-> "Ok", v |-> call.arg]
         /\ (hdr.v.version = 4 /\ hdr.v.exts.auth.some) =>
              /\ hdr.v.header.protocol = 51
              /\ hdr.v.exts.auth.v.next_header = call.arg
         /\ (hdr.v.version = 4 /\ ~hdr.v.exts.auth.some) =>
              hdr.v.header.protocol = call.arg
    /\ (op = "next_header" /\ call.kind = "set_next_headers") =>
         res = [kind |-> "Ok", v |-> call.arg]

\* next_header() after set_next_headers(TCP) on an IPv6 header whose
\* extensions were not referenced before
C15_Witness ==
    /\ op = "next_header"
    /\ call.kind = "set_next_headers"
    /\ call.arg = TCP
    /\ call.self.version = 6
    /\ next_header(call.self).kind # "Ok"
    /\ hdr.v.exts.fragment.some
    /\ hdr.v.exts.auth.some
    /\ res.kind = "Ok"

\* C16: set_next_headers returns the ether type number of the header it
\* is called on: 0x0800 (2048) for a Version4 header, 0x86DD (34525) for
\* a Version6 header.
C16_SetNextHeadersReturnsEtherType ==
    op = "set_next_headers" =>
        res = [kind |-> "U16",
               v |-> IF call.self.version = 4 THEN 2048 ELSE 34525]

\* h carries no extension
NoExtension(h) ==
    IF h.version = 4 THEN ~h.exts.auth.some
    ELSE h.exts = Ipv6Extensions_default

\* the first extension of h in emit order
FirstExtension(h) ==
    IF h.version = 4 THEN 51
    ELSE CASE h.exts.hop_by_hop_options.some -> 0
           [] h.exts.routing.some -> 43
           [] h.exts.fragment.some -> 44
           [] h.exts.destination_options.some -> 60
           [] OTHER -> 51

\* h carries an extension and its fixed header names a number that is no
\* extension
Orphaned(h) ==
    /\ ~NoExtension(h)
    /\ (IF h.version = 4 THEN h.header.protocol ELSE h.header.next_header)
          \notin Ipv6ExtNumbers

RECURSIVE ReachesZeroAuth(_, _, _)
ReachesZeroAuth(off, nh, end) ==
    IF nh \notin Ipv6ExtNumbers \/ off + 2 > end THEN FALSE
    ELSE IF nh = AUTH /\ At(buf, off + 1) = 0 THEN off + 12 <= end
    ELSE LET len == CASE nh = AUTH -> (At(buf, off + 1) + 2) * 4
                      [] nh = IPV6_FRAG -> 8
                      [] OTHER -> (At(buf, off + 1) + 1) * 8
         IN off + len <= end /\ ReachesZeroAuth(off + len, At(buf, off), end)

\* the packet in buf has an extension chain that reaches an
\* authentication header whose length octet is 0
WireZeroAuth ==
    \/ /\ WireV4Ok
       /\ At(buf, 9) = AUTH
       /\ WireTotalLen >= WireIhl * 4 + 12
       /\ At(buf, WireIhl * 4 + 1) = 0
    \/ /\ WireV6Ok
       /\ ReachesZeroAuth(40, At(buf, 6),
                          IF WireV6Fallback THEN Len(buf)
                          ELSE 40 + WirePayloadLength)

ZeroPayloadLenError ==
    IF WireVersion = 4
    THEN ErrContent([name |-> "Ipv4Ext",
                     inner |-> [name |-> "ZeroPayloadLen"]])
    ELSE ErrContent([name |-> "Ipv6Ext",
                     inner |-> [name |-> "IpAuth",
                                inner |-> [name |-> "ZeroPayloadLen"]]])

\* C18: whenever the extension chain reaches an authentication header
\* whose length octet is 0, from_slice and read fail with the content
\* error ZeroPayloadLen, as Ipv4Ext(ZeroPayloadLen) for IPv4 and as
\* Ipv6Ext(IpAuth(ZeroPayloadLen)) for IPv6, without length context.
C18_ZeroPayloadLen ==
    (op \in {"from_slice", "read"} /\ WireZeroAuth) =>
        res = ZeroPayloadLenError

\* buf starts with an IPv4 fixed header that names an authentication
\* header and whose total_len is not below the header length
WireV4Auth ==
    /\ Len(buf) >= 1
    /\ WireVersion = 4
    /\ WireIhl >= 5
    /\ Len(buf) >= WireIhl * 4
    /\ WireTotalLen >= WireIhl * 4
    /\ At(buf, 9) = AUTH

\* the length the authentication header after the fixed header declares
WireAuthLen == (At(buf, WireIhl * 4 + 1) + 2) * 4

\* C19 as stated: read of an IPv4 header with protocol AH whose total_len
\* leaves fewer octets after the fixed header than the authentication
\* header needs fails with LenError{required_len = length of the
\* authentication header, len = total_len - header_len,
\* Ipv4HeaderTotalLen, IpAuthHeader, header_len}, even when the stream
\* holds enough octets.
C19_StreamBudgetAsStated ==
    (/\ op = "read"
     /\ WireV4Auth
     /\ At(buf, WireIhl * 4 + 1) # 0
     /\ Len(buf) >= WireIhl * 4 + WireAuthLen
     /\ WireTotalLen - WireIhl * 4 < WireAuthLen) =>
        res = ErrLen(LenError(WireAuthLen, WireTotalLen - WireIhl * 4,
                              "Ipv4HeaderTotalLen", "IpAuthHeader",
                              WireIhl * 4))

\* C19, amended: the error is as stated except for required_len, which is
\* 12, the minimum length of an authentication header, when total_len
\* leaves fewer than 12 octets after the fixed header, and the declared
\* length of the authentication header when total_len leaves at least 12
\* octets but fewer than that length.
C19_StreamBudget ==
    /\ (/\ op = "read"
        /\ WireV4Auth
        /\ WireTotalLen - WireIhl * 4 < 12) =>
           res = ErrLen(LenError(12, WireTotalLen - WireIhl * 4,
                                 "Ipv4HeaderTotalLen", "IpAuthHeader",
                                 WireIhl * 4))
    /\ (/\ op = "read"
        /\ WireV4Auth
        /\ At(buf, WireIhl * 4 + 1) # 0
        /\ Len(buf) >= WireIhl * 4 + 12
        /\ WireTotalLen - WireIhl * 4 >= 12
        /\ WireTotalLen - WireIhl * 4 < WireAuthLen) =>
           res = ErrLen(LenError(WireAuthLen, WireTotalLen - WireIhl * 4,
                                 "Ipv4HeaderTotalLen", "IpAuthHeader",
                                 WireIhl * 4))

\* a 16-octet authentication header in the stream, one octet short in
\* total_len
C19_Witness ==
    /\ op = "read"
    /\ WireV4Auth
    /\ WireAuthLen = 16
    /\ Len(buf) >= WireIhl * 4 + 16
    /\ WireTotalLen - WireIhl * 4 = 15
    /\ res.kind = "Len"

\* C20: Icmpv6Header::from_slice fails with UnexpectedEndOfSlice(8) exactly
\* when the buffer has fewer than 8 octets; every buffer of 8 or more
\* octets is accepted whatever its type and code, the returned checksum is
\* the big-endian u16 at offsets 2..4 and the returned rest is buf[8..].
C20_Icmpv6FromSlice ==
    op = "icmpv6_from_slice" =>
        /\ (res = [kind |-> "UnexpectedEndOfSlice", expected_min_len |-> 8])
              <=> (Len(buf) < 8)
        /\ Len(buf) >= 8 =>
              /\ res.kind = "Ok"
              /\ res.header.checksum = buf[3] * 256 + buf[4]
              /\ res.rest = [i \in 1..(Len(buf) - 8) |-> buf[i + 8]]

C20_Witness ==
    /\ op = "icmpv6_from_slice"
    /\ Len(buf) > 8
    /\ res.kind = "Ok"
    /\ res.header.icmp_type.name = "Raw"
    /\ res.header.checksum = 18 * 256 + 52
    /\ Len(res.rest) > 0

(***************************************************************************)
(* The ICMPv6 octets of buf as RFC 4443 lays them out                      *)
(***************************************************************************)
WireIcmpType == buf[1]
WireIcmpCode == buf[2]
WireIcmpBytes5to8 == <<buf[5], buf[6], buf[7], buf[8]>>
WireIcmpWord(i) == buf[i] * 256 + buf[i + 1]
Decoded == op = "icmpv6_from_slice" /\ Len(buf) >= 8 /\ res.kind = "Ok"

\* the variant the decode table gives for the octets of buf
TableVariant ==
    CASE WireIcmpType = 1 ->
            [name |-> "DestinationUnreachable",
             header |->
                CASE WireIcmpCode = 0 -> [name |-> "NoRoute"]
                  [] WireIcmpCode = 1 -> [name |-> "Prohibited"]
                  [] WireIcmpCode = 2 -> [name |-> "BeyondScope"]
                  [] WireIcmpCode = 3 -> [name |-> "Address"]
                  [] WireIcmpCode = 4 -> [name |-> "Port"]
                  [] WireIcmpCode = 5 -> [name |-> "SourceAddressFailedPolicy"]
                  [] WireIcmpCode = 6 -> [name |-> "RejectRoute"]
                  [] OTHER -> [name |-> "Raw", code |-> WireIcmpCode,
                               bytes5to8 |-> WireIcmpBytes5to8]]
      [] WireIcmpType = 2 ->
            [name |-> "PacketTooBig", mtu |-> <<WireIcmpWord(5), WireIcmpWord(7)>>]
      [] WireIcmpType = 3 ->
            [name |-> "TimeExceeded",
             code |-> CASE WireIcmpCode = 0 -> [name |-> "HopLimitExceeded"]
                        [] WireIcmpCode = 1 ->
                              [name |-> "FragmentReassemblyTimeExceeded"]
                        [] OTHER -> [name |-> "Raw", code |-> WireIcmpCode]]
      [] WireIcmpType = 4 ->
            [name |-> "ParameterProblem",
             code |-> [name |-> "Raw", code |-> WireIcmpCode],
             pointer |-> <<WireIcmpWord(5), WireIcmpWord(7)>>]
      [] WireIcmpType = 128 ->
            [name |-> "EchoRequest",
             echo |-> [id |-> WireIcmpWord(5), seq |-> WireIcmpWord(7)]]
      [] WireIcmpType = 129 ->
            [name |-> "EchoReply",
             echo |-> [id |-> WireIcmpWord(5), seq |-> WireIcmpWord(7)]]
      [] OTHER ->
            [name |-> "Raw", icmp_type |-> WireIcmpType,
             icmp_code |-> WireIcmpCode, bytes5to8 |-> WireIcmpBytes5to8]

\* C21: decoding (type, code, bytes5to8) yields the variant of the decode
\* table: DestinationUnreachable by code for type 1, PacketTooBig with the
\* big-endian MTU for type 2, TimeExceeded by code for type 3,
\* ParameterProblem with code and big-endian pointer for type 4, EchoRequest
\* and EchoReply with id and sequence for types 128 and 129, and Raw for
\* every other type.
C21_DecodeTable ==
    Decoded => res.header.icmp_type = TableVariant

C21_Witness ==
    /\ Decoded
    /\ WireIcmpType = 129
    /\ WireIcmpBytes5to8 = <<18, 52, 0, 1>>
    /\ res.header.icmp_type = [name |-> "EchoReply", echo |-> [id |-> 4660, seq |-> 1]]

\* to_bytes has acted on the header decoded from buf
Reemitted == op = "icmpv6_to_bytes" /\ call.kind = "to_bytes" /\ hdr = None

\* C22: for every 8-octet ICMPv6 header whose type is none of 1, 2, 3, 4,
\* 128, 129, from_slice yields the Raw variant and to_bytes of the result
\* reproduces the 8 input octets.
C22_RawRoundTrip ==
    /\ (Decoded /\ WireIcmpType \notin {1, 2, 3, 4, 128, 129}) =>
          res.header.icmp_type.name = "Raw"
    /\ (Reemitted /\ WireIcmpType \notin {1, 2, 3, 4, 128, 129}) =>
          /\ call.self.icmp_type.name = "Raw"
          /\ res.v = [i \in 1..8 |-> buf[i]]

C22_Witness ==
    /\ Reemitted
    /\ WireIcmpType = 130
    /\ WireIcmpCode = 7
    /\ WireIcmpBytes5to8 = <<255, 255, 255, 254>>
    /\ res.v = <<130, 7, 18, 52, 255, 255, 255, 254>>

\* to_bytes has acted on any header, built or decoded
Emitted == op = "icmpv6_to_bytes" /\ call.kind = "to_bytes"

\* the last four octets the emission layout gives the variant t
LayoutBytes5to8(t) ==
    CASE t.name \in {"DestinationUnreachable", "TimeExceeded"} -> <<0, 0, 0, 0>>
      [] t.name = "PacketTooBig" ->
            <<t.mtu[1] \div 256, t.mtu[1] % 256, t.mtu[2] \div 256, t.mtu[2] % 256>>
      [] t.name = "ParameterProblem" ->
            <<t.pointer[1] \div 256, t.pointer[1] % 256,
              t.pointer[2] \div 256, t.pointer[2] % 256>>
      [] t.name \in {"EchoRequest", "EchoReply"} ->
            <<t.echo.id \div 256, t.echo.id % 256,
              t.echo.seq \div 256, t.echo.seq % 256>>
      [] OTHER -> t.bytes5to8

ValidatedAfterChecksum ==
    /\ op = "is_checksum_valid"
    /\ call.after.kind \in {"with_checksum", "update_checksum"}

\* C24: the header that with_checksum(t, ip, pl), or update_checksum(ip, pl)
\* on any header, yields within the length limit passes
\* is_checksum_valid(ip, pl), and fails it for a payload that differs from
\* pl in a single bit.
C24_ChecksumValidity ==
    ValidatedAfterChecksum =>
        /\ call.payload = call.after.payload => res = [kind |-> "Ok", v |-> TRUE]
        /\ call.payload \in BitFlips(call.after.payload) =>
              res = [kind |-> "Ok", v |-> FALSE]

C24_Witness ==
    /\ ValidatedAfterChecksum
    /\ call.after.kind = "update_checksum"
    /\ call.after.payload.head = <<97, 98, 99, 100>>
    /\ call.payload.head = <<97, 98, 99, 101>>
    /\ call.self.icmp_type.name = "EchoRequest"
    /\ call.self.checksum # call.after.self.checksum
    /\ res = [kind |-> "Ok", v |-> FALSE]

\* the octets the checksum is defined over: the pseudo-header (source,
\* destination, upper-layer packet length as four big-endian octets, three
\* zero octets, next-header 58), then type, code, a zeroed checksum field,
\* bytes5to8 and the explicit octets of the payload
ChecksumOctets(t, ip, pl) ==
    LET n == WideAdd(pl.zeros, Len(pl.head) + 8)
        last == LayoutBytes5to8(t)
    IN ip.source \o ip.destination
       \o <<n[1] \div 256, n[1] % 256, n[2] \div 256, n[2] % 256>>
       \o <<0, 0, 0, 58>>
       \o <<Icmp6Type_type_value(t), Icmp6Type_code_value(t), 0, 0>>
       \o last \o pl.head

\* the one's-complement of the 16-bit one's-complement sum of the octets b
\* taken as big-endian words, a last odd octet padded with zero
RECURSIVE WordSum(_, _)
WordSum(b, i) ==
    IF i > Len(b) THEN 0
    ELSE b[i] * 256 + (IF i + 1 <= Len(b) THEN b[i + 1] ELSE 0) + WordSum(b, i + 2)
InternetChecksum(b) ==
    LET s == WordSum(b, 1) IN
    65535 - (IF s = 0 THEN 0 ELSE ((s - 1) % 65535) + 1)

CalcChecksumDone == op = "calc_checksum" /\ res.kind = "Ok"

\* C25: for every accepted payload length, calc_checksum is the
\* one's-complement of the 16-bit one's-complement sum over the pseudo-header
\* (source, destination, payload.len() + 8 as four big-endian octets, three
\* zero octets, next-header 58) followed by type, code, a zeroed checksum
\* field, bytes5to8 and the payload, whatever the header's checksum field.
C25_ChecksumDefinition ==
    CalcChecksumDone =>
        res.v = InternetChecksum(
                    ChecksumOctets(call.self.icmp_type, call.ip_header, call.payload))

\* one of the five checksum operations has acted
ChecksumOps ==
    {"calc_checksum", "with_checksum", "to_header", "is_checksum_valid",
     "update_checksum"}

\* payload.len() + 8 > 2^32 - 1 for the payload of the call
PayloadTooLarge ==
    LET n == WideAdd(call.payload.zeros, Len(call.payload.head) + 8) IN
    n[1] >= 65536

\* C26: calc_checksum, with_checksum, to_header, is_checksum_valid and
\* update_checksum fail with Ipv6PayloadLengthTooLarge(payload.len()) exactly
\* when payload.len() + 8 > 2^32 - 1 and succeed for every shorter payload;
\* a failing update_checksum leaves the header's checksum unchanged.
C26_LengthLimit ==
    op \in ChecksumOps =>
        /\ PayloadTooLarge =>
              /\ res.kind = "Err"
              /\ res.err.kind = "Ipv6PayloadLengthTooLarge"
              /\ res.err.len
                    = WideAdd(call.payload.zeros, Len(call.payload.head))
        /\ ~PayloadTooLarge => res.kind = "Ok"
        /\ (op = "update_checksum" /\ res.kind = "Err") =>
              hdr.v.checksum = call.self.checksum

C26_Witness ==
    /\ op = "update_checksum"
    /\ call.payload.head = <<97, 98>>
    /\ WideAdd(call.payload.zeros, 2) = <<65535, 65528>>
    /\ res.kind = "Err"
    /\ res.err.len = <<65535, 65528>>
    /\ call.self.checksum = 4660
    /\ hdr.v.checksum = 4660

\* the accessors have been read on a view of buf
Viewed == op = "icmpv6_slice" /\ res.kind = "Slice"

\* C27: on a slice view built from a buffer b of at least 8 octets,
\* type_value() is b[0], code_value() is b[1], checksum() is the big-endian
\* u16 of b[2..4], bytes5to8() is b[4..8], slice() has length 8, and these
\* agree with the type, code, checksum and bytes of to_header().
C27_SliceAccessors ==
    Viewed =>
        /\ res.type_value = buf[1]
        /\ res.code_value = buf[2]
        /\ res.checksum = buf[3] * 256 + buf[4]
        /\ res.bytes5to8 = <<buf[5], buf[6], buf[7], buf[8]>>
        /\ Len(res.slice) = 8
        /\ res.type_value = Icmp6Type_type_value(res.header.icmp_type)
        /\ res.code_value = Icmp6Type_code_value(res.header.icmp_type)
        /\ res.checksum = res.header.checksum
        /\ res.bytes5to8 = Icmp6Type_to_bytes(res.header.icmp_type)[3]

\* the octets to_bytes gave for the header decoded from buf were decoded again
DecodedAgain == op = "icmpv6_from_slice_again" /\ hdr = None

\* C28: for every 8-octet input b with h = from_slice(b), from_slice of
\* h.to_bytes() returns a header equal to h; a DestinationUnreachable with an
\* unknown code, stored as Raw{code, bytes5to8}, keeps its bytes5to8.
C28_DecodeEncodeIdentity ==
    (DecodedAgain /\ Len(buf) = 8) =>
        /\ res.kind = "Ok"
        /\ res.header = call.self

\* write has failed with the content error ExtNotReferenced
WriteExtNotReferenced ==
    /\ op = "write"
    /\ res.kind \in {"Ipv4Exts", "Ipv6Exts"}
    /\ res.err.name = "ExtNotReferenced"

\* C29, as stated: when IpHeader::write fails with ExtNotReferenced, no octet
\* of the fixed header or of any extension has been written to the sink.
C29_NothingWrittenOnError ==
    WriteExtNotReferenced => buf = <<>>

\* C29, amended: when IpHeader::write fails with ExtNotReferenced, the sink
\* holds the octets of the fixed header (20 plus the options for IPv4, 40
\* for IPv6) and no octet of any extension.
C29_FixedHeaderWrittenOnError ==
    WriteExtNotReferenced =>
        IF hdr.v.version = 4
        THEN /\ Len(buf) = 20 + Len(hdr.v.header.options)
             /\ buf[1] = 64 + 5 + (Len(hdr.v.header.options) \div 4)
             /\ buf[10] = hdr.v.header.protocol
        ELSE /\ Len(buf) = 40
             /\ buf[1] \div 16 = 6
             /\ buf[7] = hdr.v.header.next_header

C29_Witness ==
    /\ WriteExtNotReferenced
    /\ hdr.v.version = 6
    /\ hdr.v.exts.fragment.some
    /\ hdr.v.header.next_header = UDP
    /\ Len(buf) = 40

\* set_payload_len has failed
SetPayloadLenFailed == op = "set_payload_len" /\ res.kind = "ValueTooBig"

\* C30: the ValueTooBigError of set_payload_len names the length field of
\* the header's own IP version (the IPv4 payload length for Version4, the
\* IPv6 payload length for Version6) on every failing path, the usize
\* overflow of n + extensions.header_len() included, and its max_allowed is
\* 65535 minus the extension length (minus the fixed header length for IPv4).
C30_ErrorNamesOwnLengthField ==
    SetPayloadLenFailed =>
        /\ res.value_type = IF call.self.version = 4 THEN "Ipv4PayloadLength"
                            ELSE "Ipv6PayloadLength"
        /\ res.max_allowed = IF call.self.version = 4
                             THEN 65535 - header_len(call.self)
                             ELSE 65535 - (header_len(call.self) - 40)

====
